---------------------------- MODULE Spec2Model ----------------------------
(* Model of the qc-bridge sync core (src/index.mjs) together with the     *)
(* parts of its collaborators that the core's behaviour depends on: the   *)
(* MetricsCollector (src/setup-domains-structure.mjs, lines 790-1058),    *)
(* the EnhancedLogger alert path (src/enhanced-logger.mjs) and the stored *)
(* procedure create_or_update_task (src/sql/complete_migration.sql).      *)
(*                                                                        *)
(* Time is an integer clock; one unit stands for the granularity of       *)
(* Notion's last_edited_time.  A content hash is modelled by the tuple of *)
(* the hashed fields (sha256 is taken to be collision free).  Hashed      *)
(* fields that the model does not vary (project, milestone, due date,     *)
(* assignee, status, focus date) are held empty.                          *)
EXTENDS Integers, Sequences, FiniteSets, TLC

\* ------------------------------------------------------------------ bounds
NumPages == 2
MaxTime == 2
MaxPasses == 2
MaxEdits == 1
MaxCalls == 3
MaxEvents == 3
MaxBatches == 2
NumProcs == 3

\* ------------------------------------------------------- program constants
\* config.retry.maxAttempts
MaxAttempts == 3
\* getCursor's default look-back (3600000 ms), in clock units
Lookback == 1

PageIds == 1..NumPages
Times == 0..MaxTime
\* a missing field value (JavaScript null)
Null == "null"
\* sync_state has no row for the source / no --since flag given
NoTime == -1
\* no task id (JavaScript undefined/null)
NoTask == 0
NoCode == -1
\* the task id createTaskInSupabase returns in dry-run mode ('dry-run-id')
DryRunId == -1
\* no hash stored
NoHash == << >>
\* clock value at start-up
InitNow == 1
\* absent rows of integrations_notion and tasks
NoLink == [exists |-> FALSE, task_id |-> NoTask, external_hash |-> NoHash]
NoTaskRow == [exists |-> FALSE, title |-> Null, venture |-> Null,
              priority |-> Null, focusSlot |-> Null]
\* no error
NoError == [status |-> 0, code |-> Null]
\* The remote calls the bridge makes: Supabase tables and RPC, Notion API.
CallKinds ==
  { "sync_state.select", "databases.query", "integrations_notion.select",
    "focus_slots.select", "rpc.create_or_update_task",
    "integrations_notion.update", "pages.update", "sync_state.upsert",
    "ops_logs.insert", "alerts.create" }
\* The calls among them that change external state.
MutatingCalls ==
  { "rpc.create_or_update_task", "integrations_notion.update", "pages.update",
    "sync_state.upsert", "ops_logs.insert", "alerts.create" }
\* Invocations of scripts/sync-once.sh in one repository; none started yet,
\* no lock directory.
Procs == 1..NumProcs
NoShell == [lock |-> FALSE,
            inv |-> [p \in Procs |-> [pc |-> "start", signalled |-> FALSE,
                                      code |-> NoCode]]]
\* The logger as index.mjs constructs it for a run that is not a dry run
\* and not verbose, with NOTION_ALERTS_DATABASE_ID set; nothing logged yet.
NoEvent == [level |-> Null, printed |-> FALSE, alerts |-> 0]
NoLog == [config |-> [level |-> "info", enableNotionAlerts |-> TRUE,
                      notionAlertsDbId |-> "alerts-db"],
          n |-> 0, last |-> NoEvent]
\* syncPages not entered: no operation open, no request in flight.
NoPhase == [pc |-> "idle", dryRun |-> FALSE, since |-> FALSE, more |-> FALSE,
            batches |-> 0, n |-> 0, i |-> 0, att |-> 0, ops |-> {}, bg |-> {},
            reads |-> 0, queries |-> 0, writes |-> 0]
\* Empty projects, milestones and tasks tables, no call made.
NoArgs == [p_venture_name |-> Null, p_project_name |-> Null,
           p_milestone_name |-> Null, p_due_date |-> Null,
           p_notion_page_id |-> Null]
NoDb == [projects |-> << >>, milestones |-> << >>, tasks |-> << >>, n |-> 0,
         args |-> NoArgs, ret |-> [error |-> FALSE, task_id |-> NoTask]]
\* The normalizers have not been given a record.
NoNorm == [raw |-> [status |-> Null, priority |-> Null, focusSlot |-> Null],
           done |-> FALSE,
           hash |-> << >>,
           rpc |-> [p_status |-> Null, p_priority |-> Null, p_focus_slot |-> Null]]
\* Who starts passes in continuous mode, and a starter with no pass in flight.
Runners == {"loop", "api"}
NoRun == [pc |-> "idle", sinceISO |-> 0, pages |-> << >>]
CountedCalls == {"rpc.create_or_update_task", "pages.update"}
NoRecCalls == [k \in CountedCalls |-> 0]
NoCalls == [k \in CallKinds |-> 0]

\* ------------------------------------------------------------ source data
\* Venture names/slugs present in the ventures table.
Ventures == {"gym-training"}

\* Errors a remote call can fail with: an HTTP status and/or a code.
\* status 0 stands for an error object without a status.
Errors ==
  { [status |-> 429, code |-> Null],
    [status |-> 500, code |-> Null],
    [status |-> 503, code |-> Null],
    [status |-> 0, code |-> "ECONNRESET"],
    [status |-> 0, code |-> "ETIMEDOUT"],
    [status |-> 400, code |-> Null],
    [status |-> 0, code |-> "ENOTFOUND"] }

\* Errors notion.pages.update fails with during a pass: rate limiting and
\* a validation error.
PageUpdateErrors ==
  { [status |-> 429, code |-> Null],
    [status |-> 400, code |-> Null] }

\* Errors a Supabase query or the Notion database query fails with during a
\* pass: a transient one (service unavailable) and a permanent one.
ApiErrors ==
  { [status |-> 503, code |-> Null],
    [status |-> 400, code |-> Null] }

\* Errors of the RPC: the RAISE EXCEPTION of the stored procedure, and a
\* transient failure of the call.
VentureNotFound == [status |-> 0, code |-> "P0001"]
RpcErrors == { VentureNotFound, [status |-> 503, code |-> Null] }

\* --since values an operator passes (0 = full re-sync)
SinceChoices == {0}

VARIABLES
  now,          \* wall clock
  page,         \* Notion database: page id -> fields, last_edited_time, Linked, Supabase Task ID
  editCount,    \* number of user edits made so far
  cursor,       \* sync_state.last_synced_at for 'notion_quick_capture' (NoTime if absent)
  link,         \* integrations_notion: page id -> row [exists, task_id, external_hash]
  tasks,        \* tasks table keyed by notion_page_id: row [exists, stored fields]
  calls,        \* remote calls the last step made: call kind -> how many
  thrown,       \* error the last step's remote call failed with (NoError if none)
  pc,           \* position of syncPages
  passes,       \* number of passes started
  flags,        \* CLI flags of the running pass: [dryRun, since]
  sinceISO,     \* syncPages: const sinceISO
  cursorRead,   \* getCursor: data?.last_synced_at (NoTime if no row / not read)
  pages,        \* syncPages: response.results (snapshots, in fetched order)
  i,            \* syncPages: loop index (1-based)
  created, skipped, errors,   \* syncPages counters
  result,       \* syncPages: result of createTaskInSupabase (task id or NoTask)
  maxAttempts,  \* retryWithBackoff: parameter maxAttempts of the running call
  attempt,      \* retryWithBackoff: attempt number
  rLog,         \* outcomes of the attempts of the current retryWithBackoff call
  rResult,      \* how the current retryWithBackoff call ended
  lastResult,   \* how the last pass ended
  okHash,       \* page id -> hash it was last processed successfully with (non dry-run)
  lbFailHash,   \* page id -> hash it had when its upsert succeeded and its link-back
                \* write failed (non dry-run), until it is processed successfully
  erroredNow,   \* page ids whose processing failed in the running pass
  erroredPrev,  \* page id -> last_edited_time it had when it failed in an earlier,
                \* completed non-dry-run pass (NoTime if none)
  recCalls,     \* upsert and link-back calls made so far for the record in flight
  run,          \* continuous mode with the management server: per starter of
                \* passes (the loop of main, POST /api/sync), the pass it has in flight
  sh,           \* scripts/sync-once.sh: the lock directory and the invocations
  norm,         \* the normalizers on their own: the raw labels of a record and
                \* the values handed to the upsert
  db,           \* create_or_update_task on its own: the projects, milestones and
                \* tasks tables, the last call and what it returned
  lg,           \* an EnhancedLogger on its own: its configuration, the number of
                \* events logged, the last event and what it caused
  ph            \* one pass of syncPages at the grain of its awaits: the request
                \* awaited, the open operations, the requests not awaited

envVars == <<now, page, editCount>>
dbVars == <<cursor, link, tasks>>
passVars == <<pc, passes, flags, sinceISO, cursorRead, pages, i, created,
              skipped, errors, result, attempt, rLog, rResult, lastResult>>
ghostVars == <<okHash, lbFailHash, erroredNow, erroredPrev>>
auxVars == <<maxAttempts, run, sh, norm, db, lg, ph>>
vars == <<now, page, editCount, cursor, link, tasks, calls, thrown, maxAttempts,
          pc, passes, flags, sinceISO, cursorRead, pages, i, created,
          skipped, errors, result, attempt, rLog, rResult, lastResult,
          okHash, lbFailHash, erroredNow, erroredPrev, recCalls, run, sh, norm, db, lg, ph>>

\* ----------------------------------------------------------------- helpers
Max(a, b) == IF a >= b THEN a ELSE b

\* all orderings of a finite set
Perms(S) ==
  { s \in [1..Cardinality(S) -> S] : \A a, b \in 1..Cardinality(S) : a # b => s[a] # s[b] }

\* Cue sub-strings of mapPriority that the lower-cased label contains.
\* An emoji is written :name:.
PriorityCues(val) ==
  CASE val = "P0" -> {"p0"}
    [] val = "P1" -> {"p1"}
    [] val = "High" -> {"high"}
    [] val = "P3" -> {"p3"}
    [] val = "Urgent" -> {"urgent"}
    [] val = ":fire: Hot" -> {":fire:"}
    [] val = "P2" -> {"p2"}
    [] val = ":yellow: Medium" -> {"medium", ":yellow:"}
    [] val = "low" -> {"low"}
    [] val = ":green:" -> {":green:"}
    [] val = "Low, was P0" -> {"low", "p0"}
    [] OTHER -> {}

\* mapPriority: null for a missing value, else the first matching cue in
\* the order P0, P1, P2, P3, else the default P2.
mapPriority(val) ==
  IF val = Null \/ val = "" THEN Null
  ELSE IF PriorityCues(val) \cap {"p0", "urgent"} # {} THEN "P0"
  ELSE IF PriorityCues(val) \cap {"p1", "high", ":fire:"} # {} THEN "P1"
  ELSE IF PriorityCues(val) \cap {"p2", "medium", ":yellow:"} # {} THEN "P2"
  ELSE IF PriorityCues(val) \cap {"p3", "low", ":green:"} # {} THEN "P3"
  ELSE "P2"

\* What mapStatus tests on a label: "emoji" = the symbol class matches;
\* On Hold, In Progress, Done, Complete = value.includes(...), case
\* sensitive; hold, progress, done, complete, to do = lower.includes(...);
\* =todo, =to-do = lower is exactly that.
StatusCues(val) ==
  CASE val = "To Do" -> {"to do"}
    [] val = "todo" -> {"=todo"}
    [] val = "To-Do" -> {"=to-do"}
    [] val = "In Progress" -> {"In Progress", "progress"}
    [] val = ":arrows: In Progress" -> {"emoji", "In Progress", "progress"}
    [] val = "Done" -> {"Done", "done"}
    [] val = ":check: Completed" -> {"emoji", "Complete", "complete"}
    [] val = ":check: done" -> {"emoji", "done"}
    [] val = "on hold" -> {"hold"}
    [] val = ":pause: On Hold" -> {"emoji", "On Hold", "hold"}
    [] val = "Done, on hold" -> {"Done", "done", "hold"}
    [] OTHER -> {}

\* mapStatus: null for a missing value; with a symbol of the class the
\* case-sensitive tests, else the lower-case tests; the default is To Do.
mapStatus(notionValue) ==
  IF notionValue = Null \/ notionValue = "" THEN Null
  ELSE IF "emoji" \in StatusCues(notionValue)
       THEN IF "On Hold" \in StatusCues(notionValue) THEN "On Hold"
            ELSE IF "In Progress" \in StatusCues(notionValue) THEN "In Progress"
            ELSE IF StatusCues(notionValue) \cap {"Done", "Complete"} # {} THEN "Done"
            ELSE "To Do"
  ELSE IF "hold" \in StatusCues(notionValue) THEN "On Hold"
  ELSE IF "progress" \in StatusCues(notionValue) THEN "In Progress"
  ELSE IF StatusCues(notionValue) \cap {"done", "complete"} # {} THEN "Done"
  ELSE IF StatusCues(notionValue) \cap {"to do", "=todo", "=to-do"} # {} THEN "To Do"
  ELSE "To Do"

\* The list of mapFocusSlotAsync's fallbacks, which is also the seed of the
\* focus_slots table.
FallbackSlots ==
  << "Morning Routine", "Deep Work Block 1", "Admin Block 1", "Recharge & Rest",
     "Deep Work Block 2", "Admin Block 2", "Shutdown Routine" >>
FocusSlots == { FallbackSlots[k] : k \in 1..Len(FallbackSlots) }

\* The slots whose lower-cased name contains the label after the leading
\* emoji and blanks are stripped and it is lower-cased (what ilike
\* '%stripped%' matches, and s.includes(stripped)).
SlotsContaining(val) ==
  CASE val = "Deep Work Block 1" -> {"Deep Work Block 1"}
    [] val = ":target: deep work block 1" -> {"Deep Work Block 1"}
    [] val = "deep work" -> {"Deep Work Block 1", "Deep Work Block 2"}
    [] val = "Block 2" -> {"Deep Work Block 2", "Admin Block 2"}
    [] val = ":moon:" -> FocusSlots
    [] val = " " -> FocusSlots
    [] OTHER -> {}

\* The slots whose lower-cased name the stripped, lower-cased label contains
\* (stripped.includes(s)).
SlotsContained(val) ==
  CASE val = "Deep Work Block 1" -> {"Deep Work Block 1"}
    [] val = ":target: deep work block 1" -> {"Deep Work Block 1"}
    [] val = "Shutdown Routine (late)" -> {"Shutdown Routine"}
    [] val = "Admin Block 1 or Admin Block 2" -> {"Admin Block 1", "Admin Block 2"}
    [] OTHER -> {}

\* mapFocusSlotAsync returning the label itself when nothing matches.
unknownFocusSlotRaw(notionValue) == notionValue

\* mapFocusSlotAsync: 'Unknown focus slot value, setting to null'.
unknownFocusSlot(notionValue) == Null

\* mapFocusSlotAsync.  dbOk: the query of focus_slots returned rows without
\* error; first: the row the answer lists first (the query has no order).
mapFocusSlotAsync(notionValue, dbOk, first) ==
  IF notionValue = Null \/ notionValue = "" THEN Null
  ELSE IF dbOk /\ SlotsContaining(notionValue) # {}
       THEN IF SlotsContaining(notionValue) \cap SlotsContained(notionValue) # {}
            THEN CHOOSE e \in SlotsContaining(notionValue) \cap SlotsContained(notionValue) : TRUE
            ELSE first
  ELSE IF \E k \in 1..Len(FallbackSlots) :
             FallbackSlots[k] \in SlotsContaining(notionValue) \cup SlotsContained(notionValue)
       THEN FallbackSlots[CHOOSE k \in 1..Len(FallbackSlots) :
               /\ FallbackSlots[k] \in SlotsContaining(notionValue) \cup SlotsContained(notionValue)
               /\ \A j \in 1..(k - 1) :
                     FallbackSlots[j] \notin SlotsContaining(notionValue) \cup SlotsContained(notionValue)]
  ELSE unknownFocusSlot(notionValue)

\* extractProperties: the fields syncPages works with.
extractProperties(snap) ==
  [ title |-> snap.fields.title,
    domain |-> snap.fields.domain,
    venture |-> snap.fields.venture,
    area |-> IF snap.fields.venture # Null THEN snap.fields.venture ELSE snap.fields.domain,
    priority |-> mapPriority(snap.fields.priority),
    focusSlot |-> snap.fields.focusSlot,
    supabaseTaskId |-> snap.taskId,
    linked |-> snap.linked ]

EmptyIfNull(v) == IF v = Null THEN "" ELSE v

\* The label without its leading emoji and blanks, trimmed.
Stripped(val) ==
  CASE val = ":target: deep work block 1" -> "deep work block 1"
    [] val = ":moon:" -> ""
    [] val = " " -> ""
    [] OTHER -> val

\* normalizeFocusSlotForHash: '' for a missing value; the canonical name if
\* the stripped, lower-cased label is a key of the mapping (that is, equals
\* a slot name up to case), else the stripped label itself.
normalizeFocusSlotForHash(val) ==
  IF val = Null \/ val = "" THEN ""
  ELSE IF SlotsContaining(val) \cap SlotsContained(val) # {}
       THEN CHOOSE e \in SlotsContaining(val) \cap SlotsContained(val) : TRUE
  ELSE Stripped(val)

\* calculateHash: digest of the fixed-order serialisation of the hashed fields.
calculateHash(fields) ==
  << fields.title, EmptyIfNull(fields.domain), EmptyIfNull(fields.venture),
     EmptyIfNull(mapPriority(fields.priority)),
     normalizeFocusSlotForHash(fields.focusSlot) >>

\* ------------------------------------------------------------ stored state
\* The row create_or_update_task stores for a task.
TaskRow(props) ==
  [ exists |-> TRUE, title |-> props.title, venture |-> props.venture,
    priority |-> props.priority, focusSlot |-> props.focusSlot ]

\* Fields of the pages an earlier run has synced.
SyncedContent ==
  [title |-> "A", domain |-> "health", venture |-> "gym-training",
   priority |-> "P1", focusSlot |-> "Deep Work Block 1"]

\* A page never synced, and a page synced and linked by an earlier run.
NewPage(c) == [fields |-> c, edited |-> 0, linked |-> FALSE, taskId |-> NoTask]
LinkedPage(c, p) == [fields |-> c, edited |-> 0, linked |-> TRUE, taskId |-> p]

\* Start states of a page: 0 = synced and linked by an earlier run, k > 0 =
\* never synced, carrying the k-th of the field values.  Pages are
\* interchangeable, so the start states are listed up to a permutation of
\* the page ids.
ContentSeq ==
  << [title |-> "A", domain |-> "health", venture |-> "gym-training",
      priority |-> "P1", focusSlot |-> "Deep Work Block 1"],
     [title |-> "B", domain |-> "health", venture |-> "gym-training",
      priority |-> "High", focusSlot |-> Null],
     [title |-> "A", domain |-> Null, venture |-> "gym-training",
      priority |-> "P1", focusSlot |-> Null],
     [title |-> "A", domain |-> "health", venture |-> Null,
      priority |-> "P1", focusSlot |-> Null],
     [title |-> "A", domain |-> "health", venture |-> "gym-training",
      priority |-> Null, focusSlot |-> Null],
     [title |-> "A", domain |-> "health", venture |-> "unknown-region",
      priority |-> "P1", focusSlot |-> Null] >>

\* Start states of the pages: synced; never synced and complete, without
\* priority, or with a venture the ventures table does not have.  The other
\* field values come about by edits.
StartStates == {0, 1, 5, 6}

\* Field values a Notion page can carry (the select/title values after
\* the lower-casing done by extractProperties).
Contents == { ContentSeq[k] : k \in 1..Len(ContentSeq) }

Init ==
  /\ now = InitNow
  /\ editCount = 0
  /\ \E st \in [PageIds -> StartStates] :
       /\ \A p \in PageIds : p > 1 => st[p - 1] <= st[p]
       /\ page = [p \in PageIds |->
                   IF st[p] = 0 THEN LinkedPage(SyncedContent, p)
                   ELSE NewPage(ContentSeq[st[p]])]
       /\ link = [p \in PageIds |->
                   IF st[p] = 0
                   THEN [exists |-> TRUE, task_id |-> p,
                         external_hash |-> calculateHash(SyncedContent)]
                   ELSE NoLink]
       /\ tasks = [p \in PageIds |->
                    IF st[p] = 0
                    THEN TaskRow(extractProperties(LinkedPage(SyncedContent, p)))
                    ELSE NoTaskRow]
  /\ cursor \in {NoTime, InitNow}
  /\ calls = NoCalls
  /\ thrown = NoError
  /\ pc = "idle"
  /\ passes = 0
  /\ flags = [dryRun |-> FALSE, since |-> NoTime]
  /\ sinceISO = 0
  /\ cursorRead = NoTime
  /\ pages = << >>
  /\ i = 0
  /\ created = 0 /\ skipped = 0 /\ errors = 0
  /\ result = NoTask
  /\ maxAttempts = MaxAttempts
  /\ recCalls = NoRecCalls
  /\ run = [r \in Runners |-> NoRun]
  /\ sh = NoShell
  /\ norm = NoNorm
  /\ db = NoDb
  /\ lg = NoLog
  /\ ph = NoPhase
  /\ attempt = 0
  /\ rLog = << >>
  /\ rResult = [kind |-> "none", error |-> NoError]
  /\ lastResult = "none"
  /\ okHash = [p \in PageIds |-> NoHash]
  /\ lbFailHash = [p \in PageIds |-> NoHash]
  /\ erroredNow = {}
  /\ erroredPrev = [p \in PageIds |-> NoTime]

\* Positions of syncPages inside the body of the loop over the pages, after
\* the validation of the record.
RecordPcs == {"needs_sync", "create_task", "update_integration", "link_back",
              "link_done"}

\* History of the loop body: the calls of the step are added to those of
\* the record in flight; the count starts again when the body is left.
RecCount ==
  recCalls' = IF pc' \in RecordPcs
              THEN [k \in CountedCalls |-> recCalls[k] + calls'[k]]
              ELSE NoRecCalls

\* -------------------------------------------------------------- environment
\* Time passes between passes (a pass is short against the clock unit).
Tick ==
  /\ pc = "idle"
  /\ UNCHANGED auxVars
  /\ now < MaxTime
  /\ now' = now + 1
  /\ UNCHANGED <<page, editCount>>
  /\ calls' = NoCalls /\ thrown' = NoError
  /\ UNCHANGED dbVars /\ UNCHANGED passVars /\ UNCHANGED ghostVars
  /\ RecCount

\* A user edits a page in Notion: its fields change and Notion stamps
\* last_edited_time.
EditPage(p, c) ==
  /\ pc = "idle"
  /\ UNCHANGED auxVars
  /\ editCount < MaxEdits
  /\ c # page[p].fields
  /\ page' = [page EXCEPT ![p].fields = c, ![p].edited = now]
  /\ editCount' = editCount + 1
  /\ UNCHANGED now
  /\ calls' = NoCalls /\ thrown' = NoError
  /\ UNCHANGED dbVars /\ UNCHANGED passVars /\ UNCHANGED ghostVars
  /\ RecCount

\* ------------------------------------------------------ logging and metrics
\* EnhancedLogger.sendToNotion without the test of the destination.
sendToNotionAnywhere(config, level) ==
  IF ~config.enableNotionAlerts THEN 0
  ELSE IF level \notin {"warn", "error", "fatal"} THEN 0
  ELSE 1

\* EnhancedLogger.sendToNotion: number of notion.pages.create calls into the
\* alerts database that one call of it makes.
sendToNotion(config, level) ==
  IF ~config.enableNotionAlerts \/ config.notionAlertsDbId = Null THEN 0
  ELSE IF level \notin {"warn", "error", "fatal"} THEN 0
  ELSE 1

\* EnhancedLogger.levels and shouldLog.
levels == [debug |-> 0, info |-> 1, warn |-> 2, error |-> 3, fatal |-> 4]
shouldLog(config, level) == levels[level] >= levels[config.level]

\* The methods debug, info, warn, error, fatal: whether the event is
\* printed and how many alerts it creates.  fatal has no level filter;
\* debug and info do not call sendToNotion.
logEvent(config, level) ==
  IF level # "fatal" /\ ~shouldLog(config, level)
  THEN [level |-> level, printed |-> FALSE, alerts |-> 0]
  ELSE [level |-> level, printed |-> TRUE,
        alerts |-> IF level \in {"warn", "error", "fatal"}
                   THEN sendToNotion(config, level) ELSE 0]

\* The logger is constructed with enableNotionAlerts: !flags.dryRun.
enableNotionAlerts == ~flags.dryRun

\* The configuration of the logger of index.mjs.
loggerConfig == [NoLog.config EXCEPT !.enableNotionAlerts = enableNotionAlerts]

\* MetricsCollector.storeOperationLog: rows one closed operation inserts
\* into ops_logs.
storeOperationLog == 1

\* The remote calls of a step that calls each API of S once, closes nOps
\* operations (completeOperation / failOperation, each storing one row in
\* ops_logs) and logs nErr events at error level and nWarn at warn level.
Observe(S, nOps, nErr, nWarn) ==
  calls' = [k \in CallKinds |->
              IF k = "ops_logs.insert" THEN nOps * storeOperationLog
              ELSE IF k = "alerts.create"
                   THEN nErr * logEvent(loggerConfig, "error").alerts
                        + nWarn * logEvent(loggerConfig, "warn").alerts
              ELSE IF k \in S THEN 1 ELSE 0]

\* ------------------------------------------------------------ pure helpers
\* isRetryable with the server-error test written as status > 500.
isRetryableAbove500(error) ==
  \/ error.status = 429
  \/ error.status > 500
  \/ error.code = "ECONNRESET"
  \/ error.code = "ETIMEDOUT"

\* retryWithBackoff: the isRetryable predicate.
isRetryable(error) ==
  \/ error.status = 429
  \/ error.status >= 500
  \/ error.code = "ECONNRESET"
  \/ error.code = "ETIMEDOUT"

\* retryWithBackoff giving up one attempt late.
retryStopsLate(error, att, maxAtt) ==
  ~isRetryable(error) \/ att = maxAtt + 1

\* retryWithBackoff: the condition under which a failed attempt rethrows.
retryStops(error, att, maxAtt) ==
  ~isRetryable(error) \/ att = maxAtt

\* The query filter without the timestamp condition.
onOrAfterAny(edited, since) == TRUE

\* The query filter written as a strict 'after'.
onOrAfterStrict(edited, since) == edited > since

\* getUpdatedPagesSince: the query filter last_edited_time on_or_after since.
onOrAfter(edited, since) == edited >= since

\* Notion's answer to the query: the matching pages, sorted descending by
\* last_edited_time (ties in any order), as snapshots.
QueryResults(since) ==
  LET ids == { p \in PageIds : onOrAfter(page[p].edited, since) }
  IN  { [k \in 1..Cardinality(ids) |->
           [id |-> o[k], fields |-> page[o[k]].fields, edited |-> page[o[k]].edited,
            linked |-> page[o[k]].linked, taskId |-> page[o[k]].taskId]] :
        o \in { q \in Perms(ids) :
                  \A a, b \in 1..Cardinality(ids) :
                     a < b => page[q[a]].edited >= page[q[b]].edited } }

\* syncPages: latestTimestamp = pages.map(time).reduce(max, 0)
RECURSIVE ReduceMax(_, _)
ReduceMax(pgs, k) ==
  IF k = 0 THEN 0 ELSE Max(ReduceMax(pgs, k - 1), pgs[k].edited)

\* The cursor value taken from the last fetched page instead of the maximum.
latestTimestampLast(pgs) == pgs[Len(pgs)].edited

latestTimestamp(pgs) == ReduceMax(pgs, Len(pgs))

\* The skip validation without the priority check.
missingRequiredNoPriority(props) ==
  IF props.domain = Null THEN "missing_domain"
  ELSE IF props.venture = Null THEN "missing_venture"
  ELSE "none"

\* syncPages: the skip validation; the reason a record is skipped, or "none".
missingRequired(props) ==
  IF props.domain = Null THEN "missing_domain"
  ELSE IF props.venture = Null THEN "missing_venture"
  ELSE IF props.priority = Null THEN "missing_priority"
  ELSE "none"

\* mapFocusSlotAsync: the focus_slots table is queried for a non-empty value.
FocusSlotLookup(props) ==
  IF props.focusSlot # Null THEN {"focus_slots.select"} ELSE {}

\* syncPages: the record is looked up in integrations_notion first.
alreadyLinked(props) == props.linked /\ props.supabaseTaskId # NoTask

\* needsSync: !data || data.external_hash !== currentHash
needsSync(row, currentHash) ==
  ~row.exists \/ row.external_hash # currentHash

\* createTaskInSupabase without the dry-run guard.
callsRpcAlways(dryRun) == TRUE

\* createTaskInSupabase: the RPC is called unless in dry-run mode.
callsRpc(dryRun) == ~dryRun

\* updateNotionPage: the page update is issued unless in dry-run mode.
callsPagesUpdate(dryRun) == ~dryRun

\* setCursor / syncPages: the cursor row is written unless in dry-run mode.
callsSetCursor(dryRun, nPages) == nPages > 0 /\ ~dryRun

\* syncPages without the early return on an empty result.
noPagesNever(nPages) == FALSE

\* syncPages: if (pages.length === 0) the pass returns at once.
noPages(nPages) == nPages = 0

\* create_or_update_task: the venture lookup by name or slug succeeds.
ventureFound(p_venture_name) == p_venture_name \in Ventures

\* create_or_update_task: the task id for a notion_page_id (the existing
\* task's id, or the id of the inserted row).
rpcTaskId(p_notion_page_id) == p_notion_page_id


\* ------------------------------------------------------------ syncPages
CurSnap == pages[i]
CurProps == extractProperties(CurSnap)
CurHash == calculateHash(CurSnap.fields)

\* Values of the pass-local variables when no record is in flight.
ResetRecord ==
  /\ result' = NoTask
  /\ attempt' = 0
  /\ rLog' = << >>
  /\ rResult' = [kind |-> "none", error |-> NoError]

\* End of the loop body: next record, or on to the cursor update.
NextRecord ==
  IF i < Len(pages)
  THEN i' = i + 1 /\ pc' = "extract"
  ELSE i' = i /\ pc' = "update_cursor"

\* syncPages returns: the pass-local state is dropped.
EndPass(how) ==
  /\ pc' = "idle"
  /\ lastResult' = how
  /\ flags' = [dryRun |-> FALSE, since |-> NoTime]
  /\ pages' = << >>
  /\ i' = 0
  /\ created' = 0 /\ skipped' = 0 /\ errors' = 0
  /\ sinceISO' = 0
  /\ cursorRead' = NoTime
  /\ erroredNow' = {}
  /\ ResetRecord

\* The outer catch of syncPages after a failed API call: the api_call
\* operation failed (1 row, 1 error event), 'Sync failed completely'
\* (1 error event), failOperation of the sync operation (1 row, 1 error event).
FailPass(api) ==
  /\ Observe({api}, 2, 3, 0)
  /\ \E e \in ApiErrors : thrown' = e
  /\ EndPass("failed")
  /\ UNCHANGED passes

\* A process is started (node index.mjs [--dry-run] [--since=...]) or the
\* loop begins its next pass: syncPages is entered.
StartPass(dryRun, since) ==
  /\ pc = "idle"
  /\ UNCHANGED auxVars
  /\ passes < MaxPasses
  /\ passes' = passes + 1
  /\ flags' = [dryRun |-> dryRun, since |-> since]
  /\ pc' = "get_cursor"
  /\ lastResult' = "running"
  /\ calls' = NoCalls /\ thrown' = NoError
  /\ UNCHANGED <<sinceISO, cursorRead, pages, i, created, skipped, errors,
                 result, attempt, rLog, rResult>>
  /\ UNCHANGED envVars /\ UNCHANGED <<cursor, link, tasks>> /\ UNCHANGED ghostVars
  /\ RecCount

\* const sinceISO = flags.since || await getCursor()
GetCursor ==
  /\ pc = "get_cursor"
  /\ UNCHANGED auxVars
  /\ UNCHANGED envVars /\ UNCHANGED <<cursor, link, tasks>>
  /\ UNCHANGED <<okHash, lbFailHash, erroredPrev>>
  /\ IF flags.since # NoTime
     THEN /\ sinceISO' = flags.since
          /\ pc' = "query_notion"
          /\ calls' = NoCalls /\ thrown' = NoError
          /\ UNCHANGED <<cursorRead, erroredNow>>
          /\ UNCHANGED <<passes, flags, pages, i, created, skipped, errors,
                         result, attempt, rLog, rResult, lastResult>>
     ELSE \/ /\ cursorRead' = cursor
             /\ sinceISO' = IF cursor # NoTime THEN cursor ELSE now - Lookback
             /\ pc' = "query_notion"
             /\ Observe({"sync_state.select"}, 1, 0, 0) /\ thrown' = NoError
             /\ UNCHANGED erroredNow
             /\ UNCHANGED <<passes, flags, pages, i, created, skipped, errors,
                            result, attempt, rLog, rResult, lastResult>>
          \/ FailPass("sync_state.select")
  /\ RecCount

\* const response = await getUpdatedPagesSince(sinceISO)
QueryNotion ==
  /\ pc = "query_notion"
  /\ UNCHANGED auxVars
  /\ UNCHANGED envVars /\ UNCHANGED <<cursor, link, tasks>>
  /\ UNCHANGED <<okHash, lbFailHash, erroredPrev>>
  /\ \/ \E res \in QueryResults(sinceISO) :
          IF noPages(Len(res))
          THEN /\ Observe({"databases.query"}, 2, 0, 0) /\ thrown' = NoError
               /\ EndPass("empty")
               /\ UNCHANGED passes
          ELSE /\ pages' = res
               /\ i' = 1
               /\ pc' = IF Len(res) > 0 THEN "extract" ELSE "update_cursor"
               /\ Observe({"databases.query"}, 1, 0, 0) /\ thrown' = NoError
               /\ UNCHANGED erroredNow
               /\ UNCHANGED <<passes, flags, sinceISO, cursorRead, created, skipped,
                              errors, result, attempt, rLog, rResult, lastResult>>
     \/ FailPass("databases.query")
  /\ RecCount

\* Loop body up to the skip validation (extractProperties, calculateHash,
\* the three required-field checks, the linked test).
Extract ==
  /\ pc = "extract"
  /\ UNCHANGED auxVars
  /\ UNCHANGED envVars /\ UNCHANGED <<cursor, link, tasks>> /\ UNCHANGED ghostVars
  /\ UNCHANGED <<passes, flags, sinceISO, cursorRead, pages, created, errors,
                 result, attempt, rLog, rResult, lastResult>>
  /\ IF missingRequired(CurProps) # "none"
     THEN /\ skipped' = skipped + 1
          /\ Observe({}, 1, 0, 0) /\ thrown' = NoError
          /\ NextRecord
     ELSE /\ pc' = IF alreadyLinked(CurProps) THEN "needs_sync" ELSE "create_task"
          /\ calls' = NoCalls /\ thrown' = NoError
          /\ UNCHANGED <<skipped, i>>
  /\ RecCount

\* const needUpdate = await needsSync(page.id, hash)
NeedsSyncStep ==
  /\ pc = "needs_sync"
  /\ UNCHANGED auxVars
  /\ UNCHANGED envVars /\ UNCHANGED <<cursor, link, tasks>>
  /\ UNCHANGED <<okHash, lbFailHash, erroredPrev>>
  /\ UNCHANGED <<passes, flags, sinceISO, cursorRead, pages, created,
                 result, attempt, rLog, rResult, lastResult>>
  /\ \/ IF needsSync(link[CurSnap.id], CurHash)
        THEN /\ pc' = "create_task"
             /\ Observe({"integrations_notion.select"}, 1, 0, 0) /\ thrown' = NoError
             /\ UNCHANGED <<skipped, errors, i, erroredNow>>
        ELSE /\ skipped' = skipped + 1
             /\ Observe({"integrations_notion.select"}, 2, 0, 0) /\ thrown' = NoError
             /\ NextRecord
             /\ UNCHANGED <<errors, erroredNow>>
     \/ \* the lookup fails: thrown out of makeApiCall into the per-page catch
        /\ errors' = errors + 1
        /\ erroredNow' = erroredNow \cup {CurSnap.id}
        /\ Observe({"integrations_notion.select"}, 2, 3, 0)
        /\ \E e \in ApiErrors : thrown' = e
        /\ NextRecord
        /\ UNCHANGED skipped
  /\ RecCount

\* mapFocusSlotAsync (a read) and createTaskInSupabase.  A failed RPC is
\* caught inside createTaskInSupabase, which then returns the data of
\* failOperation: an object without task_id.
CreateTask ==
  /\ pc = "create_task"
  /\ UNCHANGED auxVars
  /\ UNCHANGED envVars /\ UNCHANGED <<cursor, link>>
  /\ UNCHANGED <<okHash, lbFailHash, erroredPrev>>
  /\ UNCHANGED <<passes, flags, sinceISO, cursorRead, pages, created, skipped,
                 errors, attempt, rLog, rResult, lastResult>>
  /\ IF ~callsRpc(flags.dryRun)
     THEN /\ result' = DryRunId
          /\ pc' = "update_integration"
          /\ Observe(FocusSlotLookup(CurProps), 1, 0, 0) /\ thrown' = NoError
          /\ UNCHANGED <<tasks, i, erroredNow>>
     ELSE \/ /\ ventureFound(CurProps.venture)
             /\ tasks' = [tasks EXCEPT ![CurSnap.id] = TaskRow(CurProps)]
             /\ result' = rpcTaskId(CurSnap.id)
             /\ pc' = "update_integration"
             /\ Observe(FocusSlotLookup(CurProps) \cup {"rpc.create_or_update_task"}, 1, 0, 0) /\ thrown' = NoError
             /\ UNCHANGED <<i, erroredNow>>
          \/ \* 'Venture not found' is raised, or the call itself fails
             /\ result' = NoTask
             /\ erroredNow' = erroredNow \cup {CurSnap.id}
             /\ Observe(FocusSlotLookup(CurProps) \cup {"rpc.create_or_update_task"}, 1, 1, 0)
             /\ \E e \in RpcErrors :
                   /\ e = VentureNotFound => ~ventureFound(CurProps.venture)
                   /\ thrown' = e
             /\ NextRecord
             /\ UNCHANGED tasks
  /\ RecCount

\* if (result?.task_id): update integrations_notion (not in dry-run).  The
\* update changes a row only if one exists; an error returned by the client
\* is not inspected.
UpdateIntegration ==
  /\ pc = "update_integration"
  /\ UNCHANGED auxVars
  /\ UNCHANGED envVars /\ UNCHANGED <<cursor, tasks>> /\ UNCHANGED ghostVars
  /\ UNCHANGED <<passes, flags, sinceISO, cursorRead, pages, i, created, skipped,
                 errors, result, rLog, rResult, lastResult>>
  /\ pc' = "link_back"
  /\ attempt' = 1
  /\ IF flags.dryRun
     THEN /\ calls' = NoCalls /\ thrown' = NoError
          /\ UNCHANGED link
     ELSE /\ Observe({"integrations_notion.update"}, 1, 0, 0) /\ thrown' = NoError
          /\ \/ link' = IF link[CurSnap.id].exists
                        THEN [link EXCEPT ![CurSnap.id].external_hash = CurHash]
                        ELSE link
             \/ link' = link
  /\ RecCount

\* One attempt of retryWithBackoff around the body of updateNotionPage.
\* Notion stamps last_edited_time when the page is updated.
LinkBackAttempt ==
  /\ pc = "link_back"
  /\ UNCHANGED auxVars
  /\ UNCHANGED <<now, editCount>> /\ UNCHANGED <<cursor, link, tasks>>
  /\ UNCHANGED ghostVars
  /\ UNCHANGED <<passes, flags, sinceISO, cursorRead, pages, i, created, skipped,
                 errors, result, lastResult>>
  /\ IF ~callsPagesUpdate(flags.dryRun)
     THEN /\ rLog' = Append(rLog, [ok |-> TRUE, error |-> NoError])
          /\ rResult' = [kind |-> "ok", error |-> NoError]
          /\ pc' = "link_done"
          /\ Observe({}, 1, 0, 0) /\ thrown' = NoError
          /\ UNCHANGED <<page, attempt>>
     ELSE \/ /\ page' = [page EXCEPT ![CurSnap.id].linked = TRUE,
                                     ![CurSnap.id].taskId = result,
                                     ![CurSnap.id].edited = now]
             /\ rLog' = Append(rLog, [ok |-> TRUE, error |-> NoError])
             /\ rResult' = [kind |-> "ok", error |-> NoError]
             /\ pc' = "link_done"
             /\ Observe({"pages.update"}, 2, 0, 0) /\ thrown' = NoError
             /\ UNCHANGED attempt
          \/ \E e \in PageUpdateErrors :
               /\ rLog' = Append(rLog, [ok |-> FALSE, error |-> e])
               /\ UNCHANGED page
               /\ IF retryStops(e, attempt, maxAttempts)
                  THEN /\ rResult' = [kind |-> "thrown", error |-> e]
                       /\ pc' = "link_done"
                       /\ Observe({"pages.update"}, 2, 2, 0) /\ thrown' = e
                       /\ UNCHANGED attempt
                  ELSE /\ attempt' = attempt + 1
                       /\ Observe({"pages.update"}, 1, 1, 0) /\ thrown' = e
                       /\ UNCHANGED <<rResult, pc>>
  /\ RecCount

\* After updateNotionPage: 'Task processed' and created++, or the per-page
\* catch and errors++.
FinishRecord ==
  /\ pc = "link_done"
  /\ UNCHANGED auxVars
  /\ UNCHANGED envVars /\ UNCHANGED <<cursor, link, tasks>>
  /\ UNCHANGED <<passes, flags, sinceISO, cursorRead, pages, skipped, lastResult>>
  /\ UNCHANGED erroredPrev
  /\ IF rResult.kind = "ok"
     THEN /\ created' = created + 1
          /\ Observe({}, 1, 0, 0) /\ thrown' = NoError
          /\ okHash' = IF flags.dryRun THEN okHash
                       ELSE [okHash EXCEPT ![CurSnap.id] = CurHash]
          /\ lbFailHash' = IF flags.dryRun THEN lbFailHash
                           ELSE [lbFailHash EXCEPT ![CurSnap.id] = NoHash]
          /\ UNCHANGED <<errors, erroredNow>>
     ELSE /\ errors' = errors + 1
          /\ erroredNow' = erroredNow \cup {CurSnap.id}
          /\ Observe({}, 1, 2, 0) /\ thrown' = NoError
          /\ lbFailHash' = IF flags.dryRun THEN lbFailHash
                           ELSE [lbFailHash EXCEPT ![CurSnap.id] = CurHash]
          /\ UNCHANGED <<created, okHash>>
  /\ ResetRecord
  /\ NextRecord
  /\ RecCount

\* if (pages.length > 0 && !flags.dryRun) await setCursor(latest)
UpdateCursor ==
  /\ pc = "update_cursor"
  /\ UNCHANGED auxVars
  /\ UNCHANGED envVars /\ UNCHANGED <<link, tasks>>
  /\ UNCHANGED <<okHash, lbFailHash, erroredPrev>>
  /\ IF ~callsSetCursor(flags.dryRun, Len(pages))
     THEN /\ pc' = "summary"
          /\ calls' = NoCalls /\ thrown' = NoError
          /\ UNCHANGED <<cursor, erroredNow>>
          /\ UNCHANGED <<passes, flags, sinceISO, cursorRead, pages, i, created,
                         skipped, errors, result, attempt, rLog, rResult, lastResult>>
     ELSE \/ /\ cursor' = latestTimestamp(pages)
             /\ pc' = "summary"
             /\ Observe({"sync_state.upsert"}, 1, 0, 0) /\ thrown' = NoError
             /\ UNCHANGED erroredNow
             /\ UNCHANGED <<passes, flags, sinceISO, cursorRead, pages, i, created,
                            skipped, errors, result, attempt, rLog, rResult, lastResult>>
          \/ /\ FailPass("sync_state.upsert")
             /\ UNCHANGED cursor
  /\ RecCount

\* The summary's success_rate, in percent:
\* Math.round(((created + skipped) / pages.length) * 100).
success_rate(nCreated, nSkipped, nPages) ==
  IF nPages > 0 THEN (200 * (nCreated + nSkipped) + nPages) \div (2 * nPages)
  ELSE 100

\* recordSyncComplete, 'Sync run completed', the warning when errors > 0,
\* completeOperation of the sync operation; syncPages returns.
Summary ==
  /\ pc = "summary"
  /\ UNCHANGED auxVars
  /\ UNCHANGED envVars /\ UNCHANGED <<cursor, link, tasks>>
  /\ UNCHANGED passes
  /\ UNCHANGED <<okHash, lbFailHash>>
  /\ Observe({}, 1, 0, IF errors > 0 THEN 1 ELSE 0) /\ thrown' = NoError
  /\ erroredPrev' = [p \in PageIds |->
                       IF ~flags.dryRun /\ p \in erroredNow
                       THEN page[p].edited ELSE erroredPrev[p]]
  /\ EndPass("completed")
  /\ RecCount

Next ==
  \/ Tick
  \/ \E p \in PageIds, c \in Contents : EditPage(p, c)
  \/ \E d \in BOOLEAN, s \in {NoTime} \cup SinceChoices : StartPass(d, s)
  \/ GetCursor
  \/ QueryNotion
  \/ Extract
  \/ NeedsSyncStep
  \/ CreateTask
  \/ UpdateIntegration
  \/ LinkBackAttempt
  \/ FinishRecord
  \/ UpdateCursor
  \/ Summary

Spec == Init /\ [][Next]_vars

TypeOK ==
  /\ now \in Times
  /\ cursor \in {NoTime} \cup Times
  /\ pc \in {"idle", "get_cursor", "query_notion", "extract", "needs_sync",
             "create_task", "update_integration", "link_back", "link_done",
             "update_cursor", "summary", "retry"}
  /\ passes \in 0..MaxPasses
  /\ i \in 0..NumPages

\* ------------------------------------------------------------------- main
\* Seconds the continuous loop sleeps after a pass that returned, and after
\* a pass that threw.
NormalWait == 60
RetryWait == 30

\* syncPages' outer catch logs the error and returns
\* metrics.failOperation(...): no outcome of a pass is a rejection.
syncPagesThrows(how) == FALSE

\* One-shot mode: main awaits syncPages and returns; only a rejection
\* reaches main().catch, which exits with code 1.  sync-once.sh exits with
\* the code of npm run once.
exitCode(how) == IF syncPagesThrows(how) THEN 1 ELSE 0

\* Continuous mode: the branch of the try/catch around syncPages that the
\* loop takes, and the sleep of that branch.
loopBranch(how) == IF syncPagesThrows(how) THEN "catch" ELSE "try"
loopSleep(how) == IF loopBranch(how) = "catch" THEN RetryWait ELSE NormalWait

\* ------------------------------------------- continuous mode with server
\* The bridge process in continuous mode: the while loop of main and the
\* handler of POST /api/sync both call syncPages on the one event loop, so
\* the passes interleave at their awaits.  A pass is taken in four steps:
\* the cursor read, the query, the loop over the fetched pages, the cursor
\* write.  The passes are not dry runs and take no --since.
serverVars == <<editCount, link, calls, thrown, maxAttempts, pc, passes, flags,
                sinceISO, cursorRead, pages, i, created, skipped, errors, result,
                attempt, rLog, rResult, lastResult, okHash, lbFailHash,
                erroredNow, erroredPrev, recCalls, sh, norm, db, lg, ph>>

\* The handler of POST /api/sync and the loop call syncPages without
\* looking at passes in flight; the loop awaits its own pass, and one
\* request is followed at a time.
canStart(r) == run[r].pc = "idle"

ServerStart(r) ==
  /\ canStart(r)
  /\ run' = [run EXCEPT ![r].pc = "get_cursor"]
  /\ UNCHANGED <<now, page, cursor, tasks>> /\ UNCHANGED serverVars

\* const sinceISO = flags.since || await getCursor()
ServerGetCursor(r) ==
  /\ run[r].pc = "get_cursor"
  /\ run' = [run EXCEPT ![r].pc = "query_notion",
                        ![r].sinceISO = IF cursor # NoTime THEN cursor
                                        ELSE now - Lookback]
  /\ UNCHANGED <<now, page, cursor, tasks>> /\ UNCHANGED serverVars

\* const response = await getUpdatedPagesSince(sinceISO)
ServerQuery(r) ==
  /\ run[r].pc = "query_notion"
  /\ \E res \in QueryResults(run[r].sinceISO) :
        run' = IF noPages(Len(res))
               THEN [run EXCEPT ![r] = NoRun]
               ELSE [run EXCEPT ![r].pc = "process", ![r].pages = res]
  /\ UNCHANGED <<now, page, cursor, tasks>> /\ UNCHANGED serverVars

\* Ids of the fetched pages the loop body does not skip.
ToProcess(pgs) ==
  { pgs[k].id : k \in { j \in 1..Len(pgs) :
       /\ missingRequired(extractProperties(pgs[j])) = "none"
       /\ alreadyLinked(extractProperties(pgs[j])) =>
            needsSync(link[pgs[j].id], calculateHash(pgs[j].fields)) } }

\* The fetched snapshot of page p.
SnapOf(pgs, p) == pgs[CHOOSE k \in 1..Len(pgs) : pgs[k].id = p]

\* The loop over the fetched pages: the pages of U are upserted, and of
\* these the pages of L are linked back; the others are skipped or fail.
ServerProcess(r) ==
  /\ run[r].pc = "process"
  /\ \E U \in SUBSET ToProcess(run[r].pages) :
       /\ \A p \in U : ventureFound(extractProperties(SnapOf(run[r].pages, p)).venture)
       /\ tasks' = [p \in PageIds |->
                      IF p \in U
                      THEN TaskRow(extractProperties(SnapOf(run[r].pages, p)))
                      ELSE tasks[p]]
       /\ \E L \in SUBSET U :
            page' = [p \in PageIds |->
                       IF p \in L
                       THEN [page[p] EXCEPT !.linked = TRUE,
                                            !.taskId = rpcTaskId(p),
                                            !.edited = now]
                       ELSE page[p]]
  /\ run' = [run EXCEPT ![r].pc = "update_cursor"]
  /\ UNCHANGED <<now, cursor>> /\ UNCHANGED serverVars

\* await setCursor(latest); the summary; syncPages returns.
ServerSetCursor(r) ==
  /\ run[r].pc = "update_cursor"
  /\ cursor' = latestTimestamp(run[r].pages)
  /\ run' = [run EXCEPT ![r] = NoRun]
  /\ UNCHANGED <<now, page, tasks>> /\ UNCHANGED serverVars

\* An awaited call of the pass fails: the outer catch, syncPages returns.
ServerFail(r) ==
  /\ run[r].pc \in {"get_cursor", "query_notion", "update_cursor"}
  /\ run' = [run EXCEPT ![r] = NoRun]
  /\ UNCHANGED <<now, page, cursor, tasks>> /\ UNCHANGED serverVars

NextServer ==
  \/ Tick
  \/ \E p \in PageIds, c \in Contents : EditPage(p, c)
  \/ \E r \in Runners : ServerStart(r)
  \/ \E r \in Runners : ServerGetCursor(r)
  \/ \E r \in Runners : ServerQuery(r)
  \/ \E r \in Runners : ServerProcess(r)
  \/ \E r \in Runners : ServerSetCursor(r)
  \/ \E r \in Runners : ServerFail(r)

SpecServer == Init /\ [][NextServer]_vars

\* ------------------------------------------------------- sync-once.sh
\* Concurrent invocations of scripts/sync-once.sh, interleaved at the
\* commands of the script.  Nothing else of the bridge is looked at.
InitLock ==
  /\ now = InitNow
  /\ editCount = 0
  /\ page = [p \in PageIds |-> NewPage(SyncedContent)]
  /\ link = [p \in PageIds |-> NoLink]
  /\ tasks = [p \in PageIds |-> NoTaskRow]
  /\ cursor = NoTime
  /\ calls = NoCalls
  /\ thrown = NoError
  /\ pc = "idle"
  /\ passes = 0
  /\ flags = [dryRun |-> FALSE, since |-> NoTime]
  /\ sinceISO = 0
  /\ cursorRead = NoTime
  /\ pages = << >>
  /\ i = 0
  /\ created = 0 /\ skipped = 0 /\ errors = 0
  /\ result = NoTask
  /\ maxAttempts = MaxAttempts
  /\ recCalls = NoRecCalls
  /\ run = [r \in Runners |-> NoRun]
  /\ sh = NoShell
  /\ norm = NoNorm
  /\ db = NoDb
  /\ lg = NoLog
  /\ ph = NoPhase
  /\ attempt = 0
  /\ rLog = << >>
  /\ rResult = [kind |-> "none", error |-> NoError]
  /\ lastResult = "none"
  /\ okHash = [p \in PageIds |-> NoHash]
  /\ lbFailHash = [p \in PageIds |-> NoHash]
  /\ erroredNow = {}
  /\ erroredPrev = [p \in PageIds |-> NoTime]

lockFrame ==
  UNCHANGED <<now, page, editCount, cursor, link, tasks, calls, thrown,
              maxAttempts, pc, passes, flags, sinceISO, cursorRead, pages, i,
              created, skipped, errors, result, attempt, rLog, rResult,
              lastResult, okHash, lbFailHash, erroredNow, erroredPrev,
              recCalls, run, norm, db, lg, ph>>

\* rmdir "$LOCK_DIR": removes the directory if there is one, whoever made it.
rmdir(lock) == FALSE

\* if mkdir "$LOCK_DIR"; then trap 'rmdir "$LOCK_DIR"' EXIT INT TERM;
\* else echo ...; exit 1; fi
Acquire(p) ==
  /\ sh.inv[p].pc = "start"
  /\ IF ~sh.lock
     THEN sh' = [sh EXCEPT !.lock = TRUE, !.inv[p].pc = "sync"]
     ELSE sh' = [sh EXCEPT !.inv[p].pc = "done", !.inv[p].code = 1]
  /\ lockFrame

\* INT or TERM reaches the script while the pipeline npm run once | tee
\* runs: the trap is run when the pipeline has completed.
Signal(p) ==
  /\ sh.inv[p].pc = "sync"
  /\ ~sh.inv[p].signalled
  /\ sh' = [sh EXCEPT !.inv[p].signalled = TRUE]
  /\ lockFrame

\* The pipeline completes.  With a signal pending its trap runs next.  With
\* set -e and pipefail a failed npm run once ends the script here.
SyncEnds(p) ==
  /\ sh.inv[p].pc = "sync"
  /\ \E ok \in BOOLEAN :
       sh' = [sh EXCEPT !.inv[p].pc = IF sh.inv[p].signalled THEN "sig_trap"
                                      ELSE IF ok THEN "after" ELSE "exit_trap",
                        !.inv[p].code = IF ok THEN 0 ELSE 1]
  /\ lockFrame

\* The INT/TERM trap: rmdir "$LOCK_DIR".  The trap does not exit; the
\* script goes on after the pipeline, or ends by set -e if that failed.
SigTrap(p) ==
  /\ sh.inv[p].pc = "sig_trap"
  /\ sh' = [sh EXCEPT !.lock = rmdir(sh.lock),
                      !.inv[p].pc = IF sh.inv[p].code = 0 THEN "after"
                                    ELSE "exit_trap"]
  /\ lockFrame

\* EXIT_CODE=${PIPESTATUS[0]}, the test, the final echo; the script ends.
AfterSync(p) ==
  /\ sh.inv[p].pc = "after"
  /\ sh' = [sh EXCEPT !.inv[p].pc = "exit_trap"]
  /\ lockFrame

\* The EXIT trap: rmdir "$LOCK_DIR".
ExitTrap(p) ==
  /\ sh.inv[p].pc = "exit_trap"
  /\ sh' = [sh EXCEPT !.lock = rmdir(sh.lock), !.inv[p].pc = "done"]
  /\ lockFrame

NextLock ==
  \/ \E p \in Procs : Acquire(p)
  \/ \E p \in Procs : Signal(p)
  \/ \E p \in Procs : SyncEnds(p)
  \/ \E p \in Procs : SigTrap(p)
  \/ \E p \in Procs : AfterSync(p)
  \/ \E p \in Procs : ExitTrap(p)

SpecLock == InitLock /\ [][NextLock]_vars

\* ----------------------------------------------------------- normalizers
\* The normalizers driven on their own: any labels of the three select
\* properties, or none (null), or the empty string.
StatusLabels ==
  { "To Do", "todo", "To-Do", "In Progress", ":arrows: In Progress", "Done",
    ":check: Completed", ":check: done", "on hold", ":pause: On Hold",
    "Done, on hold", "Blocked", " ", "" }
PriorityLabels ==
  { "P0", "P1", "High", "P3", "Urgent", ":fire: Hot", "P2", ":yellow: Medium",
    "low", ":green:", "Low, was P0", "Someday", " ", "" }
FocusSlotLabels ==
  { "Deep Work Block 1", ":target: deep work block 1", "deep work", "Block 2",
    ":moon:", " ", "Shutdown Routine (late)", "Admin Block 1 or Admin Block 2",
    "Study Time", "" }

\* calculateHash of a page carrying the three labels, its other hashed
\* fields being those of SyncedContent; the status is hashed as mapStatus
\* gives it.
hashOfLabels(raw) ==
  << calculateHash([SyncedContent EXCEPT !.priority = raw.priority,
                                         !.focusSlot = raw.focusSlot]),
     EmptyIfNull(mapStatus(raw.status)) >>

InitNorm ==
  /\ now = InitNow
  /\ editCount = 0
  /\ page = [p \in PageIds |-> NewPage(SyncedContent)]
  /\ link = [p \in PageIds |-> NoLink]
  /\ tasks = [p \in PageIds |-> NoTaskRow]
  /\ cursor = NoTime
  /\ calls = NoCalls
  /\ thrown = NoError
  /\ pc = "idle"
  /\ passes = 0
  /\ flags = [dryRun |-> FALSE, since |-> NoTime]
  /\ sinceISO = 0
  /\ cursorRead = NoTime
  /\ pages = << >>
  /\ i = 0
  /\ created = 0 /\ skipped = 0 /\ errors = 0
  /\ result = NoTask
  /\ maxAttempts = MaxAttempts
  /\ recCalls = NoRecCalls
  /\ run = [r \in Runners |-> NoRun]
  /\ sh = NoShell
  /\ db = NoDb
  /\ lg = NoLog
  /\ ph = NoPhase
  /\ \E st \in StatusLabels \cup {Null}, pr \in PriorityLabels \cup {Null},
        fs \in FocusSlotLabels \cup {Null} :
       norm = [NoNorm EXCEPT !.raw = [status |-> st, priority |-> pr,
                                      focusSlot |-> fs]]
  /\ attempt = 0
  /\ rLog = << >>
  /\ rResult = [kind |-> "none", error |-> NoError]
  /\ lastResult = "none"
  /\ okHash = [p \in PageIds |-> NoHash]
  /\ lbFailHash = [p \in PageIds |-> NoHash]
  /\ erroredNow = {}
  /\ erroredPrev = [p \in PageIds |-> NoTime]

\* extractProperties (status, priority) and mapFocusSlotAsync, as syncPages
\* applies them before createTaskInSupabase: the values of p_status,
\* p_priority and p_focus_slot.
NormalizeRecord ==
  /\ ~norm.done
  /\ \E dbOk \in BOOLEAN, first \in FocusSlots :
       /\ first \in SlotsContaining(norm.raw.focusSlot) \/ SlotsContaining(norm.raw.focusSlot) = {}
       /\ norm' = [norm EXCEPT
                     !.done = TRUE,
                     !.hash = hashOfLabels(norm.raw),
                     !.rpc = [p_status |-> mapStatus(norm.raw.status),
                              p_priority |-> mapPriority(norm.raw.priority),
                              p_focus_slot |-> mapFocusSlotAsync(norm.raw.focusSlot,
                                                                 dbOk, first)]]
  /\ UNCHANGED <<now, page, editCount, cursor, link, tasks, calls, thrown,
                 maxAttempts, pc, passes, flags, sinceISO, cursorRead, pages, i,
                 created, skipped, errors, result, attempt, rLog, rResult,
                 lastResult, okHash, lbFailHash, erroredNow, erroredPrev,
                 recCalls, run, sh, db, lg, ph>>

NextNorm == NormalizeRecord

SpecNorm == InitNorm /\ [][NextNorm]_vars

\* ------------------------------------------------- create_or_update_task
\* The stored procedure the core calls (the one with p_venture_name), driven
\* on its own by a sequence of calls.  Row ids are positions in the tables.
\* Of the optional columns that the procedure treats alike (due date,
\* assignee, focus date, focus slot) the due date stands for all.
VentureRows ==
  { [id |-> "v1", name |-> "Gym Training", slug |-> "gym-training",
     primary_domain_id |-> "d1"],
    [id |-> "v2", name |-> "Side Project", slug |-> "side",
     primary_domain_id |-> "d2"] }
DomainRows == { [id |-> "d1", name |-> "Health"], [id |-> "d2", name |-> "Work"] }

\* SQL LOWER on the strings that occur.
LOWER(str) ==
  CASE str = "Gym Training" -> "gym training"
    [] str = "GYM-TRAINING" -> "gym-training"
    [] str = "Side Project" -> "side project"
    [] str = "Health" -> "health"
    [] str = "Work" -> "work"
    [] str = "Alpha" -> "alpha"
    [] OTHER -> str

RpcArgs ==
  [ p_venture_name : {"GYM-TRAINING", "Side Project", "health", "nowhere"},
    p_project_name : {Null, "Alpha", "alpha"},
    p_milestone_name : {Null, "M1"},
    p_due_date : {Null, "2025-01-01"},
    p_notion_page_id : {Null, "n1", "n2"} ]

\* SELECT ... FROM ventures WHERE LOWER(name) = LOWER(p) OR LOWER(slug) = LOWER(p)
findVenture(p_venture_name) ==
  { v \in VentureRows : \/ LOWER(v.name) = LOWER(p_venture_name)
                        \/ LOWER(v.slug) = LOWER(p_venture_name) }

\* SELECT id FROM projects WHERE venture_id = v AND LOWER(name) = LOWER(p)
findProject(projects, v_venture_id, p_project_name) ==
  { k \in 1..Len(projects) : /\ projects[k].venture_id = v_venture_id
                             /\ LOWER(projects[k].name) = LOWER(p_project_name) }

\* SELECT id FROM milestones WHERE project_id = p AND LOWER(name) = LOWER(m)
findMilestone(milestones, v_project_id, p_milestone_name) ==
  { k \in 1..Len(milestones) : /\ milestones[k].project_id = v_project_id
                               /\ LOWER(milestones[k].name) = LOWER(p_milestone_name) }

\* The task lookup never finding a row.
findTaskNever(rows, p_notion_page_id) == {}

\* IF p_notion_page_id IS NOT NULL: SELECT id FROM tasks WHERE notion_page_id = p
findTask(rows, p_notion_page_id) ==
  IF p_notion_page_id = Null THEN {}
  ELSE { k \in 1..Len(rows) : rows[k].notion_page_id = p_notion_page_id }

\* The row the UPDATE and the INSERT write: every column from the
\* parameters and the resolved ids.
TaskColumns(a, v, v_project_id, v_milestone_id) ==
  [ notion_page_id |-> a.p_notion_page_id, venture_id |-> v.id,
    domain_id |-> v.primary_domain_id, project_id |-> v_project_id,
    milestone_id |-> v_milestone_id, due_date |-> a.p_due_date ]

\* An id that LIMIT 1 can give for a lookup, or the id of the row inserted
\* when the lookup found none.
FoundOrNew(found, table) == IF found = {} THEN {Len(table) + 1} ELSE found

create_or_update_task(a) ==
  /\ db.n < MaxCalls
  /\ IF findVenture(a.p_venture_name) = {}
     THEN db' = [db EXCEPT !.n = db.n + 1, !.args = a,
                           !.ret = [error |-> TRUE, task_id |-> NoTask]]
     ELSE \E v \in findVenture(a.p_venture_name) :
          \E v_project_id \in
               IF a.p_project_name \notin {Null, ""}
               THEN FoundOrNew(findProject(db.projects, v.id, a.p_project_name),
                               db.projects)
               ELSE {0} :
          \E v_milestone_id \in
               IF v_project_id # 0 /\ a.p_milestone_name \notin {Null, ""}
               THEN FoundOrNew(findMilestone(db.milestones, v_project_id,
                                             a.p_milestone_name), db.milestones)
               ELSE {0} :
          \E v_task_id \in FoundOrNew(findTask(db.tasks, a.p_notion_page_id), db.tasks) :
            db' = [db EXCEPT
                     !.n = db.n + 1,
                     !.args = a,
                     !.projects =
                        IF v_project_id > Len(db.projects)
                        THEN Append(db.projects,
                                    [name |-> a.p_project_name, venture_id |-> v.id,
                                     domain_id |-> v.primary_domain_id])
                        ELSE db.projects,
                     !.milestones =
                        IF v_milestone_id > Len(db.milestones)
                        THEN Append(db.milestones,
                                    [name |-> a.p_milestone_name,
                                     project_id |-> v_project_id])
                        ELSE db.milestones,
                     !.tasks =
                        IF v_task_id > Len(db.tasks)
                        THEN Append(db.tasks,
                                    TaskColumns(a, v, v_project_id, v_milestone_id))
                        ELSE [db.tasks EXCEPT ![v_task_id] =
                                TaskColumns(a, v, v_project_id, v_milestone_id)],
                     !.ret = [error |-> FALSE, task_id |-> v_task_id]]
  /\ UNCHANGED <<now, page, editCount, cursor, link, tasks, calls, thrown,
                 maxAttempts, pc, passes, flags, sinceISO, cursorRead, pages, i,
                 created, skipped, errors, result, attempt, rLog, rResult,
                 lastResult, okHash, lbFailHash, erroredNow, erroredPrev,
                 recCalls, run, sh, norm, lg, ph>>

NextRpc == \E a \in RpcArgs : create_or_update_task(a)

SpecRpc == InitLock /\ [][NextRpc]_vars

\* -------------------------------------------------------- EnhancedLogger
\* A logger with any configuration, given a sequence of events.
LevelNames == {"debug", "info", "warn", "error", "fatal"}

InitLog ==
  /\ now = InitNow
  /\ editCount = 0
  /\ page = [p \in PageIds |-> NewPage(SyncedContent)]
  /\ link = [p \in PageIds |-> NoLink]
  /\ tasks = [p \in PageIds |-> NoTaskRow]
  /\ cursor = NoTime
  /\ calls = NoCalls
  /\ thrown = NoError
  /\ pc = "idle"
  /\ passes = 0
  /\ flags = [dryRun |-> FALSE, since |-> NoTime]
  /\ sinceISO = 0
  /\ cursorRead = NoTime
  /\ pages = << >>
  /\ i = 0
  /\ created = 0 /\ skipped = 0 /\ errors = 0
  /\ result = NoTask
  /\ maxAttempts = MaxAttempts
  /\ recCalls = NoRecCalls
  /\ run = [r \in Runners |-> NoRun]
  /\ sh = NoShell
  /\ norm = NoNorm
  /\ db = NoDb
  /\ \E l \in LevelNames, e \in BOOLEAN, d \in {Null, "alerts-db"} :
       lg = [NoLog EXCEPT !.config = [level |-> l, enableNotionAlerts |-> e,
                                      notionAlertsDbId |-> d]]
  /\ ph = NoPhase
  /\ attempt = 0
  /\ rLog = << >>
  /\ rResult = [kind |-> "none", error |-> NoError]
  /\ lastResult = "none"
  /\ okHash = [p \in PageIds |-> NoHash]
  /\ lbFailHash = [p \in PageIds |-> NoHash]
  /\ erroredNow = {}
  /\ erroredPrev = [p \in PageIds |-> NoTime]

\* logger.debug / info / warn / error / fatal (message, context)
LogEvent(level) ==
  /\ lg.n < MaxEvents
  /\ lg' = [lg EXCEPT !.n = lg.n + 1, !.last = logEvent(lg.config, level)]
  /\ UNCHANGED <<now, page, editCount, cursor, link, tasks, calls, thrown,
                 maxAttempts, pc, passes, flags, sinceISO, cursorRead, pages, i,
                 created, skipped, errors, result, attempt, rLog, rResult,
                 lastResult, okHash, lbFailHash, erroredNow, erroredPrev,
                 recCalls, run, sh, norm, db, ph>>

NextLog == \E level \in LevelNames : LogEvent(level)

SpecLog == InitLog /\ [][NextLog]_vars

\* ------------------------------------------- syncPages, await by await
\* One pass at the grain of its awaits.  ph.pc names the request the pass
\* is waiting for ("loop": the top of the for loop, not an await).  ph.ops
\* is MetricsCollector.operationMetrics, an operation being its type and the
\* record it belongs to (0: the pass).  ph.bg holds the owners of the
\* requests that were issued without await: completeOperation and
\* failOperation call storeOperationLog (an insert into ops_logs), and
\* failOperation logs an error (an alert page), neither awaited.
Op(type, rec) == [type |-> type, rec |-> rec]

startOperation(s, op) == [s EXCEPT !.ops = @ \cup {op}]

\* completeOperation, failOperation: the operation leaves the registry and
\* its log entry is sent without await.
completeOperation(s, op) == [s EXCEPT !.ops = @ \ {op}, !.bg = @ \cup {op.rec}]
failOperation(s, op) == [s EXCEPT !.ops = @ \ {op}, !.bg = @ \cup {op.rec}]

\* makeApiCall: before the request, and after its result or its error.
apiIssued(s, rec, awaiting) ==
  [startOperation(s, Op("api_call", rec)) EXCEPT !.pc = awaiting]
apiDone(s, rec) == completeOperation(s, Op("api_call", rec))
apiFailed(s, rec) == failOperation(s, Op("api_call", rec))

\* The outer catch of syncPages.
passFails(s) ==
  [failOperation(s, Op("sync_pages", 0)) EXCEPT !.pc = "returned"]

\* After the for loop: setCursor unless dry run, then the summary.
afterLoop(s) ==
  IF ~s.dryRun
  THEN [apiIssued(s, 0, "await_set_cursor") EXCEPT !.writes = @ + 1]
  ELSE [completeOperation(s, Op("sync_pages", 0)) EXCEPT !.pc = "returned"]

\* continue, or the end of the loop body.
nextRecord(s) ==
  IF s.i < s.n THEN [s EXCEPT !.pc = "loop", !.i = @ + 1] ELSE afterLoop(s)

\* The inner catch: failOperation(pageOperationId), errors++.
recordFails(s) == nextRecord(failOperation(s, Op("process_page", s.i)))

\* updateNotionPage: retryWithBackoff around makeApiCall(pages.update).
linkBackIssued(s) ==
  [apiIssued(startOperation(s, Op("retry_operation", s.i)), s.i,
             "await_link_back") EXCEPT !.att = 1]

\* result.task_id is set: update_integration unless dry run, updateNotionPage.
haveTaskId(s) ==
  IF ~s.dryRun THEN apiIssued(s, s.i, "await_integration")
  ELSE [completeOperation(
          completeOperation(startOperation(s, Op("retry_operation", s.i)),
                            Op("retry_operation", s.i)),
          Op("process_page", s.i)) EXCEPT !.pc = "await_sleep"]

phaseFrame ==
  UNCHANGED <<now, page, editCount, cursor, link, tasks, calls, thrown,
              maxAttempts, pc, passes, flags, sinceISO, cursorRead, pages, i,
              created, skipped, errors, result, attempt, rLog, rResult,
              lastResult, okHash, lbFailHash, erroredNow, erroredPrev,
              recCalls, run, sh, norm, db, lg>>

\* syncPages is entered: startOperation('sync_pages'), then
\* flags.since || await getCursor(), then getUpdatedPagesSince.
PhaseStart(dryRun, since) ==
  /\ ph.pc = "idle"
  /\ LET s == startOperation([ph EXCEPT !.dryRun = dryRun, !.since = since],
                             Op("sync_pages", 0))
     IN ph' = IF since
              THEN [apiIssued(s, 0, "await_query") EXCEPT !.queries = 1]
              ELSE [apiIssued(s, 0, "await_cursor") EXCEPT !.reads = @ + 1]
  /\ phaseFrame

\* getCursor returns or throws.
CursorReturns ==
  /\ ph.pc = "await_cursor"
  /\ \/ ph' = [apiIssued(apiDone(ph, 0), 0, "await_query") EXCEPT !.queries = 1]
     \/ ph' = passFails(apiFailed(ph, 0))
  /\ phaseFrame

\* One notion.databases.query of getUpdatedPagesSince returns k records and
\* has_more, or throws.
QueryReturns ==
  /\ ph.pc = "await_query"
  /\ \/ \E k \in 0..(NumPages - ph.n), has_more \in BOOLEAN :
          /\ has_more => ph.batches + 1 < MaxBatches
          /\ LET s == [ph EXCEPT !.n = @ + k, !.batches = @ + 1,
                                 !.more = has_more]
             IN ph' = IF has_more THEN [s EXCEPT !.queries = @ + 1]
                      ELSE IF s.n = 0
                      THEN [completeOperation(apiDone(s, 0), Op("sync_pages", 0))
                              EXCEPT !.pc = "returned"]
                      ELSE nextRecord(apiDone(s, 0))
     \/ ph' = passFails(apiFailed(ph, 0))
  /\ phaseFrame

\* The top of the loop body: startOperation('process_page'), the three
\* required-field checks, the linked test.
BeginRecord ==
  /\ ph.pc = "loop"
  /\ LET s == startOperation(ph, Op("process_page", ph.i))
     IN \/ ph' = nextRecord(completeOperation(s, Op("process_page", ph.i)))
        \/ ph' = apiIssued(s, ph.i, "await_needs_sync")
        \/ ph' = [s EXCEPT !.pc = "await_focus_slot"]
  /\ phaseFrame

\* needsSync returns false (skip), returns true, or throws.
NeedsSyncReturns ==
  /\ ph.pc = "await_needs_sync"
  /\ \/ ph' = nextRecord(completeOperation(apiDone(ph, ph.i),
                                           Op("process_page", ph.i)))
     \/ ph' = [apiDone(ph, ph.i) EXCEPT !.pc = "await_focus_slot"]
     \/ ph' = recordFails(apiFailed(ph, ph.i))
  /\ phaseFrame

\* mapFocusSlotAsync returns (it catches its own errors), then
\* createTaskInSupabase: startOperation('create_task'), the dry-run return
\* or the rpc.
FocusSlotReturns ==
  /\ ph.pc = "await_focus_slot"
  /\ LET s == startOperation(ph, Op("create_task", ph.i))
     IN ph' = IF ph.dryRun
              THEN haveTaskId(completeOperation(s, Op("create_task", ph.i)))
              ELSE [s EXCEPT !.pc = "await_rpc"]
  /\ phaseFrame

\* supabase.rpc returns data, or an error: the catch of createTaskInSupabase
\* returns failOperation's data, which has no task_id, and the loop body
\* goes on to its sleep.
RpcReturns ==
  /\ ph.pc = "await_rpc"
  /\ \/ ph' = haveTaskId(completeOperation(ph, Op("create_task", ph.i)))
     \/ ph' = [failOperation(ph, Op("create_task", ph.i)) EXCEPT !.pc = "await_sleep"]
  /\ phaseFrame

\* The integrations_notion update returns or throws.
IntegrationReturns ==
  /\ ph.pc = "await_integration"
  /\ \/ ph' = linkBackIssued(apiDone(ph, ph.i))
     \/ ph' = recordFails(apiFailed(ph, ph.i))
  /\ phaseFrame

\* notion.pages.update returns, or throws: a retryable error before the
\* last attempt sleeps and tries again, any other fails the record.
LinkBackReturns ==
  /\ ph.pc = "await_link_back"
  /\ \/ ph' = [completeOperation(
                 completeOperation(apiDone(ph, ph.i), Op("retry_operation", ph.i)),
                 Op("process_page", ph.i)) EXCEPT !.pc = "await_sleep", !.att = 0]
     \/ /\ ph.att < MaxAttempts
        /\ ph' = [apiFailed(ph, ph.i) EXCEPT !.pc = "await_backoff"]
     \/ ph' = [recordFails(failOperation(apiFailed(ph, ph.i),
                                         Op("retry_operation", ph.i)))
                 EXCEPT !.att = 0]
  /\ phaseFrame

\* await sleep(delay) of retryWithBackoff ends: the next attempt.
BackoffEnds ==
  /\ ph.pc = "await_backoff"
  /\ ph' = [apiIssued(ph, ph.i, "await_link_back") EXCEPT !.att = @ + 1]
  /\ phaseFrame

\* await sleep(config.rateLimit.supabaseDelay) ends.
SleepEnds ==
  /\ ph.pc = "await_sleep"
  /\ ph' = nextRecord(ph)
  /\ phaseFrame

\* setCursor returns or throws; the summary; syncPages returns.
SetCursorReturns ==
  /\ ph.pc = "await_set_cursor"
  /\ \/ ph' = [completeOperation(apiDone(ph, 0), Op("sync_pages", 0))
                 EXCEPT !.pc = "returned"]
     \/ ph' = passFails(apiFailed(ph, 0))
  /\ phaseFrame

\* A request that was not awaited settles, while the pass is at an await
\* or has returned.
Settle(k) ==
  /\ ph.pc # "loop"
  /\ k \in ph.bg
  /\ ph' = [ph EXCEPT !.bg = @ \ {k}]
  /\ phaseFrame

NextPhase ==
  \/ \E d \in BOOLEAN, s \in BOOLEAN : PhaseStart(d, s)
  \/ CursorReturns
  \/ QueryReturns
  \/ BeginRecord
  \/ NeedsSyncReturns
  \/ FocusSlotReturns
  \/ RpcReturns
  \/ IntegrationReturns
  \/ LinkBackReturns
  \/ BackoffEnds
  \/ SleepEnds
  \/ SetCursorReturns
  \/ \E k \in 0..NumPages : Settle(k)

SpecPhase == InitLock /\ [][NextPhase]_vars

\* ------------------------------------------------------ retryWithBackoff
\* retryWithBackoff driven on its own: any maxAttempts up to MaxArg and, at
\* every attempt, any outcome of the wrapped operation.
MaxArg == 3

InitRetry ==
  /\ now = InitNow
  /\ editCount = 0
  /\ page = [p \in PageIds |-> NewPage(SyncedContent)]
  /\ link = [p \in PageIds |-> NoLink]
  /\ tasks = [p \in PageIds |-> NoTaskRow]
  /\ cursor = NoTime
  /\ calls = NoCalls
  /\ thrown = NoError
  /\ pc = "retry"
  /\ passes = 0
  /\ flags = [dryRun |-> FALSE, since |-> NoTime]
  /\ sinceISO = 0
  /\ cursorRead = NoTime
  /\ pages = << >>
  /\ i = 0
  /\ created = 0 /\ skipped = 0 /\ errors = 0
  /\ result = NoTask
  /\ maxAttempts \in 1..MaxArg
  /\ recCalls = NoRecCalls
  /\ run = [r \in Runners |-> NoRun]
  /\ sh = NoShell
  /\ norm = NoNorm
  /\ db = NoDb
  /\ lg = NoLog
  /\ ph = NoPhase
  /\ attempt = 1
  /\ rLog = << >>
  /\ rResult = [kind |-> "none", error |-> NoError]
  /\ lastResult = "none"
  /\ okHash = [p \in PageIds |-> NoHash]
  /\ lbFailHash = [p \in PageIds |-> NoHash]
  /\ erroredNow = {}
  /\ erroredPrev = [p \in PageIds |-> NoTime]

\* One iteration of the for loop of retryWithBackoff.
RetryAttempt ==
  /\ pc = "retry"
  /\ rResult.kind = "none"
  /\ attempt <= maxAttempts
  /\ \/ /\ rLog' = Append(rLog, [ok |-> TRUE, error |-> NoError])
        /\ rResult' = [kind |-> "ok", error |-> NoError]
        /\ UNCHANGED attempt
     \/ \E e \in Errors :
          /\ rLog' = Append(rLog, [ok |-> FALSE, error |-> e])
          /\ IF retryStops(e, attempt, maxAttempts)
             THEN /\ rResult' = [kind |-> "thrown", error |-> e]
                  /\ UNCHANGED attempt
             ELSE /\ attempt' = attempt + 1
                  /\ UNCHANGED rResult
  /\ UNCHANGED <<now, page, editCount, cursor, link, tasks, calls, thrown,
                 maxAttempts, pc, passes, flags, sinceISO, cursorRead, pages, i, created,
                 skipped, errors, result, lastResult, okHash, lbFailHash, erroredNow,
                 erroredPrev, recCalls, run, sh, norm, db, lg, ph>>

NextRetry == RetryAttempt

SpecRetry == InitRetry /\ [][NextRetry]_vars

\* ================================================================ claims
FetchedIds == { pages[k].id : k \in 1..Len(pages) }
FetchedIdsNext == { pages'[k].id : k \in 1..Len(pages') }
OtherCalls(S) == \A k \in CallKinds \ S : calls'[k] = 0

\* A fetched record's required field is null after extraction.
GateFails(snap) ==
  \/ snap.fields.domain = Null
  \/ snap.fields.venture = Null
  \/ mapPriority(snap.fields.priority) = Null

\* The error kinds the retry wrapper is documented to retry.
DocumentedRetryable(e) ==
  \/ e.status = 429
  \/ e.status >= 500
  \/ e.code \in {"ECONNRESET", "ETIMEDOUT"}

\* ---- C1
\* C1: a record processed successfully in a non-dry-run pass and fetched
\* again with the same hash is skipped as unchanged: the pass never gets to
\* the upsert step for it.
C1_IdempotentAcrossPasses ==
  pc = "create_task" => okHash[CurSnap.id] # CurHash

\* ---- C2
\* C2: in a dry-run pass no step calls the upsert RPC, updates a source page
\* or writes the cursor row, and the task table, the pages' link properties
\* and the cursor stay as they were.
C2_DryRunIsolation ==
  [][flags.dryRun =>
       /\ calls'["rpc.create_or_update_task"] = 0
       /\ calls'["pages.update"] = 0
       /\ calls'["sync_state.upsert"] = 0
       /\ tasks' = tasks /\ page' = page /\ cursor' = cursor]_vars

\* A dry-run pass has taken a record through the upsert and link-back steps.
C2_Witness ==
  /\ flags.dryRun
  /\ pc = "summary"
  /\ created > 0
  /\ \E k \in 1..Len(pages) : ~pages[k].linked /\ ~GateFails(pages[k])

\* ---- C3
\* C3: in a dry-run pass no step makes any mutating call (ops_logs and
\* integrations_notion included, and no alert page) and the external state
\* stays as it was.
C3_DryRunNoMutation ==
  [][flags.dryRun =>
       /\ \A k \in MutatingCalls : calls'[k] = 0
       /\ tasks' = tasks /\ page' = page /\ cursor' = cursor /\ link' = link]_vars

\* ---- C4
\* C4: a step of a pass without --since never lowers the persisted cursor
\* (and never removes it).
C4_CursorMonotone ==
  [][(flags.since = NoTime /\ cursor # NoTime) => cursor' >= cursor]_vars

\* A pass without --since read a cursor and has written a later one.
C4_Witness ==
  /\ pc = "summary"
  /\ flags.since = NoTime
  /\ ~flags.dryRun
  /\ cursorRead # NoTime
  /\ cursor > cursorRead

\* ---- C5
\* C5: when a non-dry-run pass that fetched records gets to its summary, the
\* cursor is the greatest last_edited_time of the fetched records, whatever
\* became of each record.
C5_CursorIsMaxFetched ==
  (pc = "summary" /\ ~flags.dryRun) =>
     /\ \A k \in 1..Len(pages) : pages[k].edited <= cursor
     /\ \E k \in 1..Len(pages) : pages[k].edited = cursor

\* The newest fetched record failed, an older one was created, and the
\* cursor is the failed record's time.
C5_Witness ==
  /\ pc = "summary"
  /\ ~flags.dryRun
  /\ created > 0
  /\ \E k, j \in 1..Len(pages) :
        /\ pages[k].id \in erroredNow
        /\ pages[k].edited = cursor
        /\ pages[j].edited < cursor

\* ---- C6
\* Page p failed in an earlier completed non-dry-run pass and has not been
\* modified since.
FailedBefore(p) == erroredPrev[p] # NoTime /\ page[p].edited = erroredPrev[p]

C8_FailureIsolated ==
  [][(pc' # "idle" /\ erroredNow' # erroredNow) =>
        /\ errors' = errors + 1
        /\ pc' \in {"extract", "update_cursor"}
        /\ (pc' = "extract" => i' = i + 1)]_vars

\* ---- C9
\* C9: when the upsert step ends without a task id (the call failed), the
\* error counter goes up by one and the other two counters stay.
C9_UpsertFailureCounted ==
  [][(pc = "create_task" /\ pc' # "create_task" /\ result' = NoTask) =>
        /\ errors' = errors + 1
        /\ created' = created
        /\ skipped' = skipped]_vars

\* ---- C10
\* C10: the wrapper never makes more than maxAttempts attempts; it ends after
\* an attempt exactly when that attempt succeeded, failed with an error that
\* is not retryable, or was the last allowed one; a throw carries the last
\* attempt's error.  So all-retryable failures give maxAttempts attempts, a
\* non-retryable first failure gives one, and a success is the last attempt.
C10_RetryAttemptCount ==
  pc = "retry" =>
    /\ Len(rLog) <= maxAttempts
    /\ \A k \in 1..Len(rLog) :
         (k < Len(rLog) \/ rResult.kind = "none")
            => (~rLog[k].ok /\ DocumentedRetryable(rLog[k].error) /\ k < maxAttempts)
    /\ rResult.kind = "ok" => (Len(rLog) >= 1 /\ rLog[Len(rLog)].ok)
    /\ rResult.kind = "thrown" =>
         /\ Len(rLog) >= 1
         /\ ~rLog[Len(rLog)].ok
         /\ rResult.error = rLog[Len(rLog)].error
         /\ (DocumentedRetryable(rResult.error) => Len(rLog) = maxAttempts)
    /\ rResult.kind = "none" => attempt = Len(rLog) + 1

\* Every attempt failed with a retryable error of a different kind and the
\* last one was thrown after maxAttempts attempts.
C10_Witness ==
  /\ pc = "retry"
  /\ maxAttempts = MaxAttempts
  /\ rResult.kind = "thrown"
  /\ Len(rLog) = maxAttempts
  /\ rLog[1].error.status = 429
  /\ rLog[2].error.code = "ETIMEDOUT"
  /\ rResult.error.status = 503

\* ---- C11
\* C11: a first failure of the source query with a retryable error does not
\* abort the pass, and a first failure of the upsert call with a retryable
\* error does not end the record without a task id: the call is made again.
C11_TransientFailureRetried ==
  [][DocumentedRetryable(thrown') =>
       /\ pc = "query_notion" => lastResult' # "failed"
       /\ pc = "create_task" => pc' \in {"create_task", "update_integration"}]_vars

\* ---- C12
\* C12: when the source query succeeds with zero records, that step ends the
\* pass as an empty one with all three counters at 0, makes no upsert,
\* SyncLink or link-back call and no cursor write, and leaves the cursor,
\* the SyncLink rows, the tasks and the pages as they were.
C12_EmptyFetch ==
  [][(pc = "query_notion" /\ thrown' = NoError /\ pages' = << >>) =>
       /\ created = 0 /\ skipped = 0 /\ errors = 0
       /\ pc' = "idle" /\ lastResult' = "empty"
       /\ OtherCalls({"databases.query", "ops_logs.insert"})
       /\ cursor' = cursor /\ link' = link /\ tasks' = tasks /\ page' = page]_vars

\* A pass has just ended on an empty fetch, leaving a cursor that was
\* there before and pages older than it.
C12_Witness ==
  /\ pc = "idle"
  /\ lastResult = "empty"
  /\ calls["databases.query"] = 1
  /\ cursor # NoTime
  /\ \A p \in PageIds : page[p].edited < cursor

\* ---- C13
\* C13: a pass that ended in a pass-level failure is signalled to main: a
\* one-shot run of it ends with a non-zero exit code and the continuous loop
\* takes its failure branch.
C13_PassFailureReported ==
  (pc = "idle" /\ lastResult = "failed") =>
    /\ exitCode(lastResult) # 0
    /\ loopBranch(lastResult) = "catch"

\* ---- C14
\* C14: after a pass that ended in a pass-level failure the continuous loop
\* sleeps the retry interval, not the normal interval, before the next pass.
C14_ShortWaitAfterFailure ==
  (pc = "idle" /\ lastResult = "failed") =>
    /\ loopSleep(lastResult) = RetryWait
    /\ loopSleep(lastResult) # NormalWait

\* ---- C15
\* The step ends the processing of a record that a non-dry-run pass did not
\* classify as skipped.
RecordEnds ==
  /\ pc \in RecordPcs
  /\ ~flags.dryRun
  /\ i' # i \/ pc' = "update_cursor"
  /\ skipped' = skipped

\* Calls of one kind made for the record, the ending step included.
RecTotal(k) == recCalls[k] + calls'[k]

\* Link-back attempts of the record that succeeded.
OkWrites == Cardinality({k \in 1..Len(rLog) : rLog[k].ok})

\* C15 as stated: every record that is not skipped gets exactly one upsert
\* call and at most one link-back write call.
C15_OneUpsertOneLinkBack ==
  [][RecordEnds =>
       /\ RecTotal("rpc.create_or_update_task") = 1
       /\ RecTotal("pages.update") <= 1]_vars

\* C15: every record that is not skipped gets at most one upsert call, and
\* exactly one unless its hash lookup failed; it gets at most maxAttempts
\* link-back write calls, none without a task id, at most one of them
\* succeeds, and a second one is made only after a failed one.
C15_OneUpsertBoundedLinkBack ==
  [][RecordEnds =>
       /\ RecTotal("rpc.create_or_update_task") <= 1
       /\ RecTotal("rpc.create_or_update_task") = 0 =>
            pc = "needs_sync" /\ thrown' # NoError
       /\ RecTotal("pages.update") <= maxAttempts
       /\ RecTotal("pages.update") = Len(rLog)
       /\ RecTotal("pages.update") > 0 => result # NoTask
       /\ OkWrites <= 1
       /\ \A k \in 1..Len(rLog) : rLog[k].ok => k = Len(rLog)]_vars

\* A record of a non-dry-run pass was upserted once and its link-back write
\* succeeded at a second or later attempt.
C15_Witness ==
  /\ pc = "link_done"
  /\ ~flags.dryRun
  /\ recCalls["rpc.create_or_update_task"] = 1
  /\ recCalls["pages.update"] >= 2
  /\ rResult.kind = "ok"

\* ---- C16
\* C16: when the upsert of a record succeeded and its link-back write
\* failed, the SyncLink row of the record exists with the hash of this pass;
\* and a later pass that fetches the record with that same hash skips it:
\* it never gets to the upsert step for it.
C16_LinkBackFailureThenSkipped ==
  /\ (pc = "link_done" /\ rResult.kind = "thrown" /\ ~flags.dryRun) =>
        /\ link[CurSnap.id].exists
        /\ link[CurSnap.id].external_hash = CurHash
  /\ pc = "create_task" => lbFailHash[CurSnap.id] # CurHash

\* ---- C17
\* C17: after the step that follows a successful non-dry-run upsert, a
\* SyncLink row exists for the record's external id with the task id the
\* upsert returned and the hash computed in this pass; and no step deletes
\* a SyncLink row.
C17_SyncLinkLifecycle ==
  [][/\ (pc = "update_integration" /\ ~flags.dryRun) =>
          /\ link'[CurSnap.id].exists
          /\ link'[CurSnap.id].task_id = result
          /\ link'[CurSnap.id].external_hash = CurHash
     /\ \A p \in PageIds : link[p].exists => link'[p].exists]_vars

\* ---- C18
\* Runner r has read the cursor for its pass and not yet written it.
HoldsCursorRead(r) == run[r].pc \in {"query_notion", "process", "update_cursor"}

\* C18: a pass is started only when no other pass is in flight, no pass
\* reads the cursor between another pass's cursor read and cursor write, and
\* no cursor write replaces the cursor by an older value.
C18_PassesNeverOverlap ==
  [][/\ \A r \in Runners :
          (run[r].pc = "idle" /\ run'[r].pc # "idle") =>
             \A o \in Runners \ {r} : run[o].pc = "idle"
     /\ \A r \in Runners :
          (run[r].pc = "get_cursor" /\ run'[r].pc = "query_notion") =>
             \A o \in Runners \ {r} : ~HoldsCursorRead(o)
     /\ (cursor # NoTime /\ cursor' # cursor) => cursor' > cursor]_vars

\* ---- C19
\* C19: at most one invocation of sync-once.sh is running the sync at any
\* time, and while an invocation is running the sync the lock is held: no
\* other invocation has removed it.
C19_RunLockExcludes ==
  /\ Cardinality({p \in Procs : sh.inv[p].pc = "sync"}) <= 1
  /\ (\E p \in Procs : sh.inv[p].pc = "sync") => sh.lock

\* ---- C20
CanonicalStatus == {"To Do", "In Progress", "Done", "On Hold"}
CanonicalPriority == {"P0", "P1", "P2", "P3"}
CanonicalFocusSlots ==
  { "Morning Routine", "Deep Work Block 1", "Admin Block 1", "Recharge & Rest",
    "Deep Work Block 2", "Admin Block 2", "Shutdown Routine" }

NormalizedAs(raw2) ==
  { [p_status |-> mapStatus(raw2.status),
     p_priority |-> mapPriority(raw2.priority),
     p_focus_slot |-> mapFocusSlotAsync(raw2.focusSlot, d, f)] :
       d \in BOOLEAN,
       f \in IF SlotsContaining(raw2.focusSlot) = {} THEN FocusSlots
             ELSE SlotsContaining(raw2.focusSlot) }

\* C21: a page whose labels normalize to the values this record was
\* upserted with has the same content hash as this record.
C21_HashOfNormalizedRecord ==
  norm.done =>
    \A st \in StatusLabels \cup {Null}, pr \in PriorityLabels \cup {Null},
       fs \in FocusSlotLabels \cup {Null} :
         norm.rpc \in NormalizedAs([status |-> st, priority |-> pr, focusSlot |-> fs])
           => hashOfLabels([status |-> st, priority |-> pr, focusSlot |-> fs]) = norm.hash

\* ---- C22
\* The label is not null or '' and, once stripped, is empty or neither
\* equals, is part of, nor contains a slot name.
NoSlotMatches(val) ==
  /\ val \notin {Null, ""}
  /\ \/ Stripped(val) = ""
     \/ \A s \in CanonicalFocusSlots :
           s \notin SlotsContaining(val) /\ s \notin SlotsContained(val)

\* C22: a record whose focus-slot label matches no slot name is upserted
\* with a null focus slot.
C22_FocusSlotNeverDefaults ==
  (norm.done /\ NoSlotMatches(norm.raw.focusSlot)) => norm.rpc.p_focus_slot = Null

\* ---- C23
\* C23: for a fetched page that is already linked to the task id the upsert
\* returned, the link-back step issues no update of the page and leaves the
\* page, its last-edited time included, as it was.
C23_NoWriteBackWhenLinked ==
  [][(pc = "link_back" /\ ~flags.dryRun /\ CurSnap.linked /\ CurSnap.taskId = result) =>
        (calls'["pages.update"] = 0 /\ page' = page)]_vars

\* ---- C24
\* The key matches a venture, or a domain, by name or slug up to case.
MatchesVenture(key) ==
  \E v \in VentureRows : LOWER(key) \in {LOWER(v.name), LOWER(v.slug)}
MatchesDomain(key) == \E d \in DomainRows : LOWER(key) = LOWER(d.name)

\* C24: a call raises the not-found error exactly when its category key
\* matches neither a venture nor a domain, and a call that raises changes no
\* table.
C24_CategoryResolution ==
  [][db'.n = db.n + 1 =>
       /\ db'.ret.error <=>
            (~MatchesVenture(db'.args.p_venture_name)
               /\ ~MatchesDomain(db'.args.p_venture_name))
       /\ db'.ret.error =>
            /\ db'.projects = db.projects
            /\ db'.milestones = db.milestones
            /\ db'.tasks = db.tasks]_vars

\* ---- C25
\* The call updated a task that existed before it.
UpdatedExisting ==
  /\ db'.n = db.n + 1
  /\ ~db'.ret.error
  /\ db'.ret.task_id \in 1..Len(db.tasks)

\* C25: a call that updates an existing task without a due date, project or
\* milestone leaves the task's stored due date, project or milestone as it
\* was.
C25_PartialUpdate ==
  [][UpdatedExisting =>
       /\ db'.args.p_due_date = Null =>
            db'.tasks[db'.ret.task_id].due_date = db.tasks[db'.ret.task_id].due_date
       /\ db'.args.p_project_name = Null =>
            db'.tasks[db'.ret.task_id].project_id = db.tasks[db'.ret.task_id].project_id
       /\ db'.args.p_milestone_name = Null =>
            db'.tasks[db'.ret.task_id].milestone_id = db.tasks[db'.ret.task_id].milestone_id]_vars

\* ---- C26
\* No two tasks have the same external id; no two projects of one venture,
\* and no two milestones of one project, have the same name up to case; and
\* the last call, if it did not raise, returned the id of a task with its
\* external id.
TaskIdentityInv ==
  /\ \A j, k \in 1..Len(db.tasks) :
        (j # k /\ db.tasks[j].notion_page_id # Null) =>
           db.tasks[j].notion_page_id # db.tasks[k].notion_page_id
  /\ \A j, k \in 1..Len(db.projects) :
        (j # k /\ db.projects[j].venture_id = db.projects[k].venture_id) =>
           LOWER(db.projects[j].name) # LOWER(db.projects[k].name)
  /\ \A j, k \in 1..Len(db.milestones) :
        (j # k /\ db.milestones[j].project_id = db.milestones[k].project_id) =>
           LOWER(db.milestones[j].name) # LOWER(db.milestones[k].name)
  /\ (db.n > 0 /\ ~db.ret.error) =>
        /\ db.ret.task_id \in 1..Len(db.tasks)
        /\ db.tasks[db.ret.task_id].notion_page_id = db.args.p_notion_page_id

\* A call with an external id that a task has updates that task and adds
\* none; any other call that does not raise adds exactly one task; no call
\* changes another task.
UpdateOrCreateStep ==
  db'.n = db.n + 1 =>
       /\ db'.ret.error => db'.tasks = db.tasks
       /\ ~db'.ret.error =>
            /\ \A k \in 1..Len(db.tasks) :
                  k # db'.ret.task_id => db'.tasks[k] = db.tasks[k]
            /\ IF /\ db'.args.p_notion_page_id # Null
                  /\ \E k \in 1..Len(db.tasks) :
                        db.tasks[k].notion_page_id = db'.args.p_notion_page_id
               THEN /\ Len(db'.tasks) = Len(db.tasks)
                    /\ db.tasks[db'.ret.task_id].notion_page_id
                         = db'.args.p_notion_page_id
               ELSE /\ Len(db'.tasks) = Len(db.tasks) + 1
                    /\ db'.ret.task_id = Len(db'.tasks)

\* C26: after any sequence of calls at most one task exists per external
\* id, at most one project per venture and name, at most one milestone per
\* project and name; a call naming the external id of an existing task
\* updates it and returns its id, and any other call creates exactly one
\* task.
C26_TaskIdentity == []TaskIdentityInv /\ [][UpdateOrCreateStep]_vars

\* Three calls were made: the last updated the task of an external id that
\* two calls had named, while another task exists, and a project is shared
\* under two spellings of its name.
C26_Witness ==
  /\ db.n = MaxCalls
  /\ ~db.ret.error
  /\ Len(db.tasks) = 2
  /\ db.ret.task_id = 1
  /\ db.args.p_notion_page_id = "n1"
  /\ db.args.p_project_name = "alpha"
  /\ Len(db.projects) = 1
  /\ db.projects[1].name = "Alpha"

\* ---- C27
\* Rank of a level in the logger's filter.
LevelRank(level) ==
  CASE level = "debug" -> 0 [] level = "info" -> 1 [] level = "warn" -> 2
    [] level = "error" -> 3 [] level = "fatal" -> 4

RecordAwaits ==
  {"await_needs_sync", "await_focus_slot", "await_rpc", "await_integration",
   "await_link_back"}

\* The cursor is read at most once, before any source query.
CursorReadFirst ==
  ph.reads <= 1 /\ (ph.pc = "await_cursor" => ph.queries = 0)

\* No record is begun while a pagination token is outstanding.
FetchedBeforeProcessed == ph.i > 0 => (~ph.more /\ ph.pc # "await_query")

\* No request of another record is in flight during a record's remote call.
RecordsDoNotOverlap ==
  ph.pc \in RecordAwaits => \A k \in ph.bg : k \in {0, ph.i}

\* The cursor is written at most once, after the last record.
CursorWrittenLast ==
  ph.writes <= 1 /\ (ph.pc = "await_set_cursor" => ph.i = ph.n)

\* C28: within one pass the cursor is read at most once and before the
\* query, the whole query is fetched before the first record, no two
\* records' remote calls overlap, and the cursor is written at most once
\* and after the last record.
C28_PhaseOrdering ==
  /\ CursorReadFirst
  /\ FetchedBeforeProcessed
  /\ RecordsDoNotOverlap
  /\ CursorWrittenLast

\* ---- C29
\* (fetched - errors) / fetched, in percent, rounded.
DocumentedRate(nErrors, nPages) ==
  (200 * (nPages - nErrors) + nPages) \div (2 * nPages)

\* C29: in a pass that reaches its summary every fetched record is in
\* exactly one of created, skipped and errors, and the reported success
\* rate is (fetched - errors) / fetched.
C29_OutcomeAccounting ==
  pc = "summary" =>
    /\ created + skipped + errors = Len(pages)
    /\ success_rate(created, skipped, Len(pages)) = DocumentedRate(errors, Len(pages))

\* ---- C30
\* C30: once a pass has returned, no operation it registered is left in
\* the registry that getActiveOperations reports.
C30_OperationsBalanced == ph.pc = "returned" => ph.ops = {}

=============================================================================
